---- MODULE Spec2Model ----
(***************************************************************************)
(* Mac-Traker: the discovery passes that classify forwarding-table rows    *)
(* into MAC locations (backend/app/services/discovery), the fleet and      *)
(* single-device entry points that run them (backend/app/api/discovery.py, *)
(* discovery_scheduler.py) and the stand-alone writers of the same tables  *)
(* (services/mac_discovery.py, lldp_discovery.py port merge).              *)
(*                                                                         *)
(* The database is modelled as the committed tables plus, per SQLAlchemy   *)
(* session, the rows and attribute changes that session has not committed  *)
(* yet.  Sessions are created with autoflush=False (db/database.py:35):    *)
(* a query sees committed rows and the session's own FLUSHED rows, never   *)
(* its pending ones.                                                       *)
(***************************************************************************)
EXTENDS Integers, Sequences, FiniteSets, TLC

----------------------------------------------------------------------------
(* Universe *)

Devices == {1, 2}

\* port names as the devices report them, and their canonical form
RawPortNames == {"GigabitEthernet0/0/1", "Eth-Trunk 1"}

normalize_port_name(n) ==
    CASE n = "GigabitEthernet0/0/1" -> "GE0/0/1"
      [] n = "Eth-Trunk 1"          -> "Eth-Trunk1"
      [] OTHER                      -> n

PortNames == {normalize_port_name(n) : n \in RawPortNames}

\* names that contain one of 'trunk','eth-trunk','port-channel','po','lag','bond'
is_uplink_by_name(n) == n \in {"Eth-Trunk1"}

PortKeys == Devices \X PortNames

\* a hardware address is its vendor prefix and the rest
MacX == [oui |-> "3C5282", nic |-> 1]
MacP == [oui |-> "001565", nic |-> 1]
MACs == {MacX, MacP}

ENDPOINT_OUIS == {"00186E", "000B86", "0004F2", "001565", "000B82"}

is_oui_endpoint(m) == m.oui \in ENDPOINT_OUIS

Entries == [mac : MACs, port : RawPortNames]

MaxRows == 2
MaxPasses == 2

\* rows per table when several passes run at once
MaxSharedRows == 1

TablesUpTo(n) == UNION {[1..k -> Entries] : k \in 0..n}
Snapshots == TablesUpTo(MaxRows)
SharedSnapshots == TablesUpTo(MaxSharedRows)

Workers == {"manual", "sched", "single"}
FleetWorkers == {"manual", "sched"}

NoLldp == "none"
LldpTypes == {NoLldp, "switch", "router", "ap", "phone", "unknown"}

----------------------------------------------------------------------------
(* State *)

VARIABLES
    ports,      \* ports table (committed): PortKeys -> row
    macs,       \* mac_addresses table (committed): set of addresses
    locs,       \* mac_locations rows, committed and uncommitted
    hist,       \* mac_history rows, committed and uncommitted
    logs,       \* discovery_logs rows
    fallback,   \* Switch.use_ssh_fallback per device
    status,     \* _discovery_status.status
    wk,         \* per worker: position, locals and its session
    clock,      \* number of passes started so far; utcnow() of a pass
    last,       \* history variable: the latest collection
    switches,   \* switches table: the ids that exist
    portRows,   \* ports table as the topology builder sees it: id -> row
    locRefs,    \* mac_locations.port_id, one per row
    histRefs,   \* mac_history.port_id and previous_port_id, one per row
    links,      \* topology_links rows
    rf,         \* position of the topology refresh
    graph,      \* the NetworkGraph singleton
    lock,       \* NetworkGraph._lock: the request holding it, or NoThread
    th,         \* per request thread of the graph API: position and locals
    snap,       \* history variable: the graph as the last finished build left it
    net,        \* what each switch answers on its command line
    names,      \* switches.hostname: site prefix and tier of each switch
    crowd,      \* per port id: the distinct addresses ever located on it
    tr,         \* the trace request in progress and its MacEndpointTracer
    deleted     \* the latest response of DELETE /switches/{id}

discoVars == <<ports, macs, locs, hist, logs, fallback, status, wk, clock, last>>
tableVars == <<switches, portRows, locRefs, histRefs, links>>
cache == <<graph, snap>>
topoVars == <<tableVars, rf, lock, th>>

traceVars == <<net, names, crowd, tr>>
reqVars == <<traceVars, deleted>>

vars == <<discoVars, topoVars, cache, reqVars>>

NoPort == [exists |-> FALSE, is_uplink |-> FALSE, ptype |-> "access", lldp |-> NoLldp]

NoOverlay == [k \in PortKeys |-> [set |-> FALSE, row |-> NoPort]]

\* history variable: device, method and rows of the latest collection, and
\* whether that collection returned the rows of the one before it
NoLast == [dev |-> 0, path |-> "snmp", rows |-> <<>>, again |-> FALSE]

IdleWorker ==
    [pc |-> "idle", dev |-> 0, path |-> "snmp", rows |-> <<>>, idx |-> 0,
     ouis |-> FALSE, result |-> "success", t |-> 0,
     flipP |-> {}, flipF |-> {}, touch |-> {},
     pov |-> NoOverlay, smacs |-> {}]

----------------------------------------------------------------------------
(* Session views.  A session state S is the tables together with the      *)
(* worker record `me` that holds the session's uncommitted changes.        *)

Min(S) == CHOOSE x \in S : \A y \in S : x <= y

Here(w) == [locs |-> locs, hist |-> hist, ports |-> ports, macs |-> macs, me |-> wk[w]]

\* Port row as the session sees it: its own modified object, else the table
PortView(S, k) == IF S.me.pov[k].set THEN S.me.pov[k].row ELSE S.ports[k]

MacKnown(S, m) == m \in S.macs \/ m \in S.me.smacs

\* a location row is returned by w's queries if committed or flushed by w
Visible(w, S, i) == S.locs[i].st = "c" \/ (S.locs[i].owner = w /\ S.locs[i].st = "f")

\* is_current as the database answers w: flushed flips count, pending do not
DbCur(S, i) == S.locs[i].cur /\ i \notin S.me.flipF

QueryCurrentOfMac(w, S, m) ==
    {i \in DOMAIN S.locs : Visible(w, S, i) /\ S.locs[i].mac = m /\ DbCur(S, i)}

QueryCurrentOfSwitch(w, S, d) ==
    {i \in DOMAIN S.locs : Visible(w, S, i) /\ S.locs[i].sw = d /\ DbCur(S, i)}

\* committed view, what any new session reads
Committed(i) == locs[i].st = "c"
CurrentLocs(m) == {i \in DOMAIN locs : Committed(i) /\ locs[i].mac = m /\ locs[i].cur}

----------------------------------------------------------------------------
(* Session operations *)

\* Session.flush(): pending inserts and updates reach the database,
\* inside the session's still uncommitted transaction
Flush(w, S) ==
    [S EXCEPT
       !.locs = [i \in DOMAIN S.locs |->
                   IF S.locs[i].owner = w /\ S.locs[i].st = "p"
                   THEN [S.locs[i] EXCEPT !.st = "f"] ELSE S.locs[i]],
       !.me = [S.me EXCEPT !.flipF = S.me.flipF \cup S.me.flipP, !.flipP = {}]]

\* Session.commit(): flush, then everything of the session becomes visible
Commit(w, S) ==
    LET flips == S.me.flipF \cup S.me.flipP
    IN [locs  |-> [i \in DOMAIN S.locs |->
                     LET r  == S.locs[i]
                         r1 == IF r.owner = w /\ r.st # "c" THEN [r EXCEPT !.st = "c"] ELSE r
                         r2 == IF i \in flips THEN [r1 EXCEPT !.cur = FALSE] ELSE r1
                     IN IF i \in S.me.touch THEN [r2 EXCEPT !.seen = S.me.t] ELSE r2],
        hist  |-> [i \in DOMAIN S.hist |->
                     IF S.hist[i].owner = w THEN [S.hist[i] EXCEPT !.st = "c"] ELSE S.hist[i]],
        ports |-> [k \in PortKeys |-> IF S.me.pov[k].set THEN S.me.pov[k].row ELSE S.ports[k]],
        macs  |-> S.macs \cup S.me.smacs,
        me    |-> [S.me EXCEPT !.flipP = {}, !.flipF = {}, !.touch = {},
                               !.pov = NoOverlay, !.smacs = {}]]

MacLocation(w, m, d, p, t) ==
    [mac |-> m, sw |-> d, port |-> p, seen |-> t, cur |-> TRUE, st |-> "p", owner |-> w]

MacHistory(w, m, d, p, ev, psw, pport) ==
    [mac |-> m, sw |-> d, port |-> p, ev |-> ev, psw |-> psw, pport |-> pport,
     st |-> "p", owner |-> w]

RECURSIVE Ascending(_)
Ascending(S) == IF S = {} THEN <<>> ELSE <<Min(S)>> \o Ascending(S \ {Min(S)})

----------------------------------------------------------------------------
(* SNMPDiscoveryService._process_mac_entries, stale cleanup part *)

discovered_macs(rows) == {rows[i].mac : i \in DOMAIN rows}

StaleOf(w, S) ==
    {i \in QueryCurrentOfSwitch(w, S, S.me.dev) :
        S.locs[i].mac \notin discovered_macs(S.me.rows)}

StaleCleanup(w, S) ==
    LET d     == S.me.dev
        stale == StaleOf(w, S)
        ids   == Ascending(stale)
        S1    == [S EXCEPT
                    !.me.flipP = @ \cup stale,
                    !.hist = @ \o [j \in 1..Len(ids) |->
                                     MacHistory(w, S.locs[ids[j]].mac, d, S.locs[ids[j]].port,
                                                "disappeared", 0, "")]]
    IN IF stale # {} THEN Commit(w, S1) ELSE S1

----------------------------------------------------------------------------
(* SNMPDiscoveryService._process_mac_entries, one forwarding-table row *)

NewPort(byName) ==
    [exists |-> TRUE, is_uplink |-> byName,
     ptype |-> IF byName THEN "trunk" ELSE "access", lldp |-> NoLldp]

SetPort(S, k, row) ==
    IF row = PortView(S, k) THEN S
    ELSE [S EXCEPT !.me.pov[k] = [set |-> TRUE, row |-> row]]

\* lines 776-799: an existing port keeps the neighbour-based role when it has one
SnmpRole(port, byName) ==
    IF port.lldp # NoLldp
    THEN CASE port.lldp \in {"switch", "router", "unknown"} ->
                 IF ~port.is_uplink
                 THEN [port EXCEPT !.is_uplink = TRUE, !.ptype = "uplink"] ELSE port
           [] port.lldp = "ap"    -> [port EXCEPT !.is_uplink = FALSE, !.ptype = "ap_port"]
           [] port.lldp = "phone" -> [port EXCEPT !.is_uplink = FALSE, !.ptype = "phone_port"]
           [] OTHER -> port
    ELSE IF byName /\ ~port.is_uplink
         THEN [port EXCEPT !.is_uplink = TRUE, !.ptype = "trunk"] ELSE port

\* lines 960-971 and 1041-1046
SnmpNewPortIsUplink(port) ==
    CASE port.lldp \in {"ap", "phone"}      -> FALSE
      [] port.lldp \in {"switch", "router"} -> TRUE
      [] OTHER                              -> port.is_uplink

\* get-or-create of the Port row (lines 737-799)
SnmpPort(w, S, k) ==
    LET byName == is_uplink_by_name(k[2])
    IN IF ~PortView(S, k).exists
       THEN Flush(w, SetPort(S, k, NewPort(byName)))
       ELSE SetPort(S, k, SnmpRole(PortView(S, k), byName))

\* get-or-create of the MacAddress row (lines 801-828)
GetOrCreateMac(w, S, m) ==
    IF MacKnown(S, m) THEN S
    ELSE Flush(w, [S EXCEPT !.me.smacs = @ \cup {m}])

CurrentIsUplink(S, loc) ==
    LET cp == PortView(S, <<loc.sw, loc.port>>)
    IN IF cp.exists THEN cp.is_uplink ELSE FALSE

Touch(S, i) == [S EXCEPT !.me.touch = @ \cup {i}]

\* AlertService.create_mac_move_alert / create_new_mac_alert: db.add(alert)
\* followed by db.flush()
create_alert(w, S) == Flush(w, S)

\* lines 995-1033: history "move", alert unless the move leaves an uplink
\* for an endpoint port, then old row flipped and new row added
MoveLocation(w, S, i, m, d, pn, newUp, curUp) ==
    LET old_port == PortView(S, <<S.locs[i].sw, S.locs[i].port>>)
        S1 == [S EXCEPT !.hist = Append(@, MacHistory(w, m, d, pn, "move",
                                                     S.locs[i].sw, S.locs[i].port))]
        S2 == IF ~(~newUp /\ curUp) /\ old_port.exists THEN create_alert(w, S1) ELSE S1
    IN [S2 EXCEPT
          !.me.flipP = @ \cup {i},
          !.locs = Append(@, MacLocation(w, m, d, pn, S.me.t))]

\* lines 1066-1095: new row; history "new" and alert for a brand-new address
CreateLocation(w, S, m, d, pn, is_new_mac) ==
    LET S1 == [S EXCEPT !.locs = Append(@, MacLocation(w, m, d, pn, S.me.t))]
    IN IF is_new_mac
       THEN create_alert(w, [S1 EXCEPT !.hist = Append(@, MacHistory(w, m, d, pn, "new", 0, ""))])
       ELSE S1

\* the placement decision of lines 830-1095; raised = UnboundLocalError at 1040
SnmpPlace(w, S, m, d, pn, is_new_mac) ==
    LET found == QueryCurrentOfMac(w, S, m)
        port  == PortView(S, <<d, pn>>)
        newUp == SnmpNewPortIsUplink(port)
    IN IF found # {}
       THEN LET i   == Min(found)
                loc == S.locs[i]
            IN IF loc.sw # d \/ loc.port # pn
               THEN LET curUp == CurrentIsUplink(S, loc)
                        S1    == [S EXCEPT !.me.ouis = TRUE]
                    IN [raised |-> FALSE,
                        S |-> IF newUp /\ ~curUp THEN Touch(S1, i)
                              ELSE IF newUp /\ curUp /\ is_oui_endpoint(m) THEN Touch(S1, i)
                              ELSE MoveLocation(w, S1, i, m, d, pn, newUp, curUp)]
               ELSE [raised |-> FALSE, S |-> Touch(S, i)]
       ELSE IF ~S.me.ouis
            THEN [raised |-> TRUE, S |-> S]
            ELSE IF newUp /\ (~is_oui_endpoint(m) \/ ~is_new_mac)
                 THEN [raised |-> FALSE, S |-> S]
                 ELSE [raised |-> FALSE, S |-> CreateLocation(w, S, m, d, pn, is_new_mac)]

SnmpRow(w, S, e) ==
    LET d  == S.me.dev
        pn == normalize_port_name(e.port)
        S1 == SnmpPort(w, S, <<d, pn>>)
        S2 == GetOrCreateMac(w, S1, e.mac)
    IN SnmpPlace(w, S2, e.mac, d, pn, ~MacKnown(S1, e.mac))

----------------------------------------------------------------------------
(* SSHDiscoveryService._process_mac_entries, one forwarding-table row *)

\* lines 385-412: the role comes from the port name only
SshPort(w, S, k) ==
    LET byName == is_uplink_by_name(k[2])
        port   == PortView(S, k)
    IN IF ~port.exists
       THEN Flush(w, SetPort(S, k, NewPort(byName)))
       ELSE IF byName /\ ~port.is_uplink
            THEN Flush(w, SetPort(S, k, [port EXCEPT !.is_uplink = TRUE, !.ptype = "trunk"]))
            ELSE S

\* lines 436-529
SshPlace(w, S, m, d, pn, is_new_mac) ==
    LET found == QueryCurrentOfMac(w, S, m)
        newUp == is_uplink_by_name(pn)
    IN IF found # {}
       THEN LET i   == Min(found)
                loc == S.locs[i]
            IN IF loc.sw # d \/ loc.port # pn
               THEN IF newUp /\ ~CurrentIsUplink(S, loc)
                    THEN Touch(S, i)
                    ELSE MoveLocation(w, S, i, m, d, pn, newUp, CurrentIsUplink(S, loc))
               ELSE Touch(S, i)
       ELSE CreateLocation(w, S, m, d, pn, is_new_mac)

SshRow(w, S, e) ==
    LET d  == S.me.dev
        pn == normalize_port_name(e.port)
        S1 == SshPort(w, S, <<d, pn>>)
        S2 == GetOrCreateMac(w, S1, e.mac)
    IN [raised |-> FALSE, S |-> SshPlace(w, S2, e.mac, d, pn, ~MacKnown(S1, e.mac))]

----------------------------------------------------------------------------
(* NetworkGraph (services/network_graph.py): the cached adjacency map.     *)
(* `order` lists the keys of `adjacency` in insertion order, nb[n] is the  *)
(* key set of adjacency[n]; the link data stored under a key is left out.  *)

\* switch ids of the topology: the discovered devices and one more
Nodes == Devices \cup {3}

\* top 5 by connectivity
CoreLimit == 5

NoThread == 0
Threads == {1, 2}

\* NetworkGraph.__init__, and what the four clear() calls of build leave
EmptyGraph(valid) ==
    [order |-> <<>>, nb |-> [n \in Nodes |-> {}], core |-> <<>>, valid |-> valid]

Keys(g) == {g.order[i] : i \in DOMAIN g.order}

\* `if id not in self.adjacency: self.adjacency[id] = {}`
WithKey(g, n) == IF n \in Keys(g) THEN g ELSE [g EXCEPT !.order = Append(@, n)]

\* build, lines 66-80: clear, then one empty entry per switch
LoadSwitches(g, sws) == [EmptyGraph(g.valid) EXCEPT !.order = Ascending(sws)]

\* build, lines 96-109: both ends become keys, then the edge local -> remote
ForwardEdge(g, l) ==
    [WithKey(WithKey(g, l.lsw), l.rsw) EXCEPT !.nb[l.lsw] = @ \cup {l.rsw}]

\* a build that stores the forward edge only
ReverseEdgeMissing(g, l) == g

\* build, lines 111-116: the edge remote -> local
ReverseEdge(g, l) == [g EXCEPT !.nb[l.rsw] = @ \cup {l.lsw}]

Degree(g, n) == Cardinality(g.nb[n])

\* list.sort(key=degree, reverse=True) is stable: among equal degrees the
\* insertion order of the keys is kept
RECURSIVE ByDegree(_, _)
ByDegree(g, seq) ==
    IF seq = <<>> THEN <<>>
    ELSE LET i == CHOOSE i \in DOMAIN seq :
                    /\ \A j \in DOMAIN seq : Degree(g, seq[j]) <= Degree(g, seq[i])
                    /\ \A j \in 1..(i - 1) : Degree(g, seq[j]) < Degree(g, seq[i])
         IN <<seq[i]>> \o ByDegree(g, SubSeq(seq, 1, i - 1) \o SubSeq(seq, i + 1, Len(seq)))

\* build, lines 118-130: the core list, then is_valid = True
FinishBuild(g) ==
    LET sorted == ByDegree(g, g.order)
    IN [g EXCEPT !.core = SubSeq(sorted, 1, IF Len(sorted) < CoreLimit THEN Len(sorted) ELSE CoreLimit),
                 !.valid = TRUE]

\* db.query(TopologyLink).all(): the rows by id
RECURSIVE LinkList(_)
LinkList(lk) ==
    IF lk = {} THEN <<>>
    ELSE LET l == CHOOSE x \in lk : \A y \in lk : x.id <= y.id
         IN <<l>> \o LinkList(lk \ {l})

RECURSIVE AddEdges(_, _)
AddEdges(g, todo) ==
    IF todo = <<>> THEN g
    ELSE AddEdges(ReverseEdge(ForwardEdge(g, Head(todo)), Head(todo)), Tail(todo))

\* one whole build of the tables
Rebuilt(g, sws, lk) == FinishBuild(AddEdges(LoadSwitches(g, sws), LinkList(lk)))

\* a search that follows the newest path first
RECURSIVE BfsNewestFirst(_, _, _, _)
BfsNewestFirst(g, queue, visited, to) ==
    IF queue = <<>> THEN <<>>
    ELSE LET path    == Head(queue)
             current == path[Len(path)]
             nbs     == IF current \in Keys(g) THEN g.nb[current] ELSE {}
             fresh   == Ascending(nbs \ {path[i] : i \in DOMAIN path})
         IN IF to \in nbs THEN Append(path, to)
            ELSE BfsNewestFirst(g, [i \in DOMAIN fresh |-> Append(path, fresh[i])] \o Tail(queue),
                                visited, to)

\* find_path, the search loop: queue of paths, each ending in the switch to
\* expand.  An empty sequence stands for None.
RECURSIVE Bfs(_, _, _, _)
Bfs(g, queue, visited, to) ==
    IF queue = <<>> THEN <<>>
    ELSE LET path    == Head(queue)
             current == path[Len(path)]
             nbs     == IF current \in Keys(g) THEN g.nb[current] ELSE {}
             fresh   == Ascending(nbs \ visited)
         IN IF to \in nbs THEN Append(path, to)
            ELSE Bfs(g, Tail(queue) \o [i \in DOMAIN fresh |-> Append(path, fresh[i])],
                     visited \cup nbs, to)

find_path(g, from, to) ==
    IF from \notin Keys(g) \/ to \notin Keys(g) THEN <<>>
    ELSE IF from = to THEN <<from>>
    ELSE Bfs(g, <<<<from>>>>, {from}, to)

RECURSIVE NearestCore(_, _, _, _)
NearestCore(g, n, cores, shortest) ==
    IF cores = <<>> THEN shortest
    ELSE LET path == find_path(g, n, Head(cores))
         IN NearestCore(g, n, Tail(cores),
                        IF path # <<>> /\ (shortest = <<>> \/ Len(path) < Len(shortest))
                        THEN path ELSE shortest)

find_path_to_core(g, n) == NearestCore(g, n, g.core, <<>>)

get_switch_neighbors(g, n) == IF n \in Keys(g) THEN g.nb[n] ELSE {}

Queries == {"path", "to_core", "neighbors", "core"}

\* what a request reads from the graph
AnswerOf(g, op, a, b) ==
    [path |-> CASE op = "path" -> find_path(g, a, b)
                [] op = "to_core" -> find_path_to_core(g, a)
                [] OTHER -> <<>>,
     nbs  |-> IF op = "neighbors" THEN get_switch_neighbors(g, a) ELSE {},
     core |-> IF op = "core" THEN g.core ELSE <<>>]

NoAnswer == [path |-> <<>>, nbs |-> {}, core |-> <<>>]

IdleThread ==
    [pc |-> "idle", op |-> "build", a |-> 0, b |-> 0, todo |-> <<>>, rebuilt |-> FALSE,
     ans |-> NoAnswer]

----------------------------------------------------------------------------
(* Topology tables.  The classifier above finds a Port by (switch, name);  *)
(* the topology builder also finds it by ifIndex and merges rows by id, so *)
(* here the ports table is seen by id, with the references to its rows.    *)

MaxPortRows == 4
PortIds == 1..MaxPortRows

\* references per table in the initial database
MaxRefs == 1

\* neighbours reported to one refresh
MaxNeighbors == 2

NoRow ==
    [exists |-> FALSE, sw |-> 0, name |-> "", index |-> 0,
     is_uplink |-> FALSE, ptype |-> "access", lldp |-> NoLldp]

\* a row of the ports table; index 0 stands for an unknown ifIndex
PortRow(d, n, k, role) ==
    [exists |-> TRUE, sw |-> d, name |-> n, index |-> k,
     is_uplink |-> role.is_uplink, ptype |-> role.ptype, lldp |-> role.lldp]

Tables == [ports |-> portRows, locs |-> locRefs, hist |-> histRefs, links |-> links]

Existing(T) == {p \in PortIds : T.ports[p].exists}

\* the id of the next INSERT: one more than the largest id in the table
NextId(ids) == IF ids = {} THEN 1 ELSE (CHOOSE x \in ids : \A y \in ids : y <= x) + 1

\* the role refresh_topology gives a port whose neighbour has type t
LldpPort(t) ==
    [exists |-> TRUE, is_uplink |-> t \notin {"ap", "phone"},
     ptype |-> CASE t = "ap" -> "ap_port" [] t = "phone" -> "phone_port" [] OTHER -> "uplink",
     lldp |-> t]

----------------------------------------------------------------------------
(* LLDPDiscoveryService._cleanup_duplicate_ports *)

SameIndex(T, d, k) ==
    {p \in Existing(T) : T.ports[p].sw = d /\ T.ports[p].index = k}

\* GROUP BY switch_id, port_index HAVING count > 1, for port_index > 0
DuplicateGroups(T) ==
    {SameIndex(T, T.ports[p].sw, T.ports[p].index) :
        p \in {q \in Existing(T) : /\ T.ports[q].index > 0
                                   /\ Cardinality(SameIndex(T, T.ports[q].sw, T.ports[q].index)) > 1}}

LocCount(T, p) == Cardinality({i \in DOMAIN T.locs : T.locs[i] = p})

HasLldp(r) == r.lldp # NoLldp

\* which row to keep: more Location references first, then neighbour data
RECURSIVE PickKeep(_, _, _)
PickKeep(T, keep, rest) ==
    IF rest = <<>> THEN keep
    ELSE LET p == Head(rest)
         IN PickKeep(T,
                     IF LocCount(T, p) > LocCount(T, keep) THEN p
                     ELSE IF /\ LocCount(T, p) = LocCount(T, keep)
                             /\ HasLldp(T.ports[p]) /\ ~HasLldp(T.ports[keep])
                          THEN p ELSE keep,
                     Tail(rest))

\* a merge that forgets mac_history.previous_port_id
MergeIntoSkippingPrevious(T, p, keep) ==
    LET to(x) == IF x = p THEN keep ELSE x
    IN [ports |-> [T.ports EXCEPT ![p] = NoRow],
        locs  |-> [i \in DOMAIN T.locs |-> to(T.locs[i])],
        hist  |-> [i \in DOMAIN T.hist |-> [T.hist[i] EXCEPT !.port = to(@)]],
        links |-> {[l EXCEPT !.lport = to(@), !.rport = to(@)] : l \in T.links}]

\* merge row p into row keep: neighbour data, then every reference, then
\* the row itself is deleted
MergeInto(T, p, keep) ==
    LET to(x) == IF x = p THEN keep ELSE x
        kr == T.ports[keep]
        pr == T.ports[p]
    IN [ports |-> [T.ports EXCEPT
                     ![keep] = IF HasLldp(pr) /\ ~HasLldp(kr)
                               THEN [kr EXCEPT !.lldp = pr.lldp, !.is_uplink = pr.is_uplink,
                                               !.ptype = pr.ptype]
                               ELSE kr,
                     ![p] = NoRow],
        locs  |-> [i \in DOMAIN T.locs |-> to(T.locs[i])],
        hist  |-> [i \in DOMAIN T.hist |->
                     [port |-> to(T.hist[i].port), prev |-> to(T.hist[i].prev)]],
        links |-> {[l EXCEPT !.lport = to(@), !.rport = to(@)] : l \in T.links}]

RECURSIVE MergeGroup(_, _, _)
MergeGroup(T, rows, keep) ==
    IF rows = <<>> THEN T
    ELSE MergeGroup(IF Head(rows) = keep THEN T ELSE MergeInto(T, Head(rows), keep),
                    Tail(rows), keep)

RECURSIVE MergeGroups(_, _)
MergeGroups(T, groups) ==
    IF groups = {} THEN T
    ELSE LET g    == CHOOSE x \in groups : \A y \in groups : Min(x) <= Min(y)
             rows == Ascending(g)
         IN MergeGroups(MergeGroup(T, rows, PickKeep(T, Head(rows), Tail(rows))),
                        groups \ {g})

cleanup_duplicate_ports(T) == MergeGroups(T, DuplicateGroups(T))

----------------------------------------------------------------------------
(* LLDPDiscoveryService.refresh_topology, the loop over the neighbours *)

\* the interfaces a device reports as local port of a neighbour: ifIndex
\* and name belong together
LocalIfs ==
    {[index |-> 1, name |-> "GigabitEthernet0/0/1"], [index |-> 2, name |-> "Eth-Trunk 1"]}

\* capability bits of the neighbour
NeighborKinds == {"switch", "ap"}

\* one lldpRemTable row: remote = 0 is a system that is no managed switch
Reports ==
    {r \in [sw : Nodes, lif : LocalIfs, remote : Nodes \cup {0},
            rname : RawPortNames, kind : NeighborKinds] : r.remote # r.sw}

\* the rows in the order of the loop: switch by switch
ReportLists(S) ==
    {rs \in UNION {[1..k -> S] : k \in 0..MaxNeighbors} :
        \A i \in DOMAIN rs, j \in DOMAIN rs : i < j => rs[i].sw <= rs[j].sw}

\* _find_local_port: by ifIndex first, then by normalised name; 0 for None
PortByName(T, d, n) ==
    LET found == {p \in Existing(T) : T.ports[p].sw = d /\ T.ports[p].name = n}
    IN IF found = {} THEN 0 ELSE Min(found)

find_local_port(T, d, k, name) ==
    IF k > 0 /\ SameIndex(T, d, k) # {} THEN Min(SameIndex(T, d, k))
    ELSE PortByName(T, d, normalize_port_name(name))

\* port role of a neighbour that is a managed switch (lines 546-566)
LinkRole(kind) ==
    CASE kind \in {"switch", "router"} -> LldpPort(kind)
      [] kind = "ap"                   -> LldpPort("ap")
      [] kind = "phone"                -> LldpPort("phone")
      [] OTHER                         -> LldpPort("unknown")

\* port role of a neighbour that is not in the switches table (lines 497-520)
StrangerRole(kind) ==
    CASE kind = "ap"                   -> LldpPort("ap")
      [] kind = "phone"                -> LldpPort("phone")
      [] kind \in {"switch", "router"} -> LldpPort("switch")
      [] OTHER                         -> LldpPort("unknown")

SetRole(row, role) ==
    [row EXCEPT !.is_uplink = role.is_uplink, !.ptype = role.ptype, !.lldp = role.lldp]

\* a loop that skips a neighbour that is no managed switch
StrangerSkipped(R, n) == R

\* lines 491-532: only the local port's role is updated
Stranger(R, n) ==
    LET p == find_local_port(R.T, n.sw, n.lif.index, n.lif.name)
    IN IF p = 0 THEN R
       ELSE [R EXCEPT !.T.ports[p] = SetRole(@, StrangerRole(n.kind))]

\* lines 568-592: get or create the local port, tag it with the neighbour
LocalPort(T, n) ==
    LET p == find_local_port(T, n.sw, n.lif.index, n.lif.name)
        q == NextId(Existing(T))
    IN IF p # 0
       THEN [id |-> p, full |-> FALSE,
             T |-> [T EXCEPT !.ports[p] = SetRole(@, LinkRole(n.kind))]]
       ELSE IF q \notin PortIds THEN [id |-> 0, full |-> TRUE, T |-> T]
       ELSE [id |-> q, full |-> FALSE,
             T |-> [T EXCEPT !.ports[q] =
                      PortRow(n.sw, normalize_port_name(n.lif.name), n.lif.index,
                              LinkRole(n.kind))]]

\* lines 594-613: get or create the remote port by name, index 1, uplink
RemotePort(T, n) ==
    LET p == PortByName(T, n.remote, normalize_port_name(n.rname))
        q == NextId(Existing(T))
    IN IF p # 0
       THEN [id |-> p, full |-> FALSE,
             T |-> [T EXCEPT !.ports[p].is_uplink = TRUE, !.ports[p].ptype = "uplink"]]
       ELSE IF q \notin PortIds THEN [id |-> 0, full |-> TRUE, T |-> T]
       ELSE [id |-> q, full |-> FALSE,
             T |-> [T EXCEPT !.ports[q] =
                      PortRow(n.remote, normalize_port_name(n.rname), 1,
                              [is_uplink |-> TRUE, ptype |-> "uplink", lldp |-> NoLldp])]]

\* a lookup of the link in the reporting direction only
ExistingLinkOneWay(T, a, b) == {l \in T.links : l.lsw = a /\ l.rsw = b}

\* lines 615-621: a link between the two switches, in either direction
ExistingLink(T, a, b) ==
    {l \in T.links : \/ l.lsw = a /\ l.rsw = b
                     \/ l.lsw = b /\ l.rsw = a}

TopologyLink(T, n, lp, rp) ==
    [id |-> NextId({l.id : l \in T.links}), lsw |-> n.sw, lport |-> lp,
     rsw |-> n.remote, rport |-> rp]

\* lines 534-640: a neighbour that is a managed switch
Managed(R, n) ==
    LET key == {n.sw, n.remote}
        L   == LocalPort(R.T, n)
        P   == RemotePort(L.T, n)
    IN IF key \in R.seen THEN R
       ELSE IF L.full \/ P.full THEN [R EXCEPT !.full = TRUE]
       ELSE [R EXCEPT !.seen = @ \cup {key},
                      !.T = IF ExistingLink(P.T, n.sw, n.remote) # {} THEN P.T
                            ELSE [P.T EXCEPT !.links = @ \cup {TopologyLink(P.T, n, L.id, P.id)}]]

Neighbor(R, sws, n) ==
    IF n.remote \in sws THEN Managed(R, n) ELSE Stranger(R, n)

RECURSIVE Neighbors(_, _, _)
Neighbors(R, sws, reports) ==
    IF reports = <<>> \/ R.full THEN R
    ELSE Neighbors(Neighbor(R, sws, Head(reports)), sws, Tail(reports))

----------------------------------------------------------------------------
(* MacEndpointTracer, live strategy: the walk over SSH from a core switch  *)

\* max_hops of _trace_from_single_core
MaxHops == 10

\* the switches of the site, numbered from the core down the chain, one
\* more than the walk can visit
Site == 1..(MaxHops + 1)

\* an LLDP system name that no switch of the database carries
Foreign == MaxHops + 2

TrunkName == "Eth-Trunk1"
AccessName == "GigabitEthernet0/0/3"
MemberNames == <<"XGigabitEthernet1/0/8", "XGigabitEthernet2/0/8">>
LldpPorts == {AccessName, MemberNames[1], MemberNames[2]}

\* `"trunk" in port_name.lower()`
IsTrunkName(n) == n \in {TrunkName}

\* the answers of one switch: does it accept the session, does the session
\* answer commands (send_command raises otherwise), the port that
\* `display mac-address` shows ("" when the address is not listed), the
\* members that `display eth-trunk` shows, and per interface the system
\* name that `display lldp neighbor interface` shows (<<>> for none)
Answers(up, port, members, lldp) ==
    [up |-> up, talks |-> TRUE, port |-> port, members |-> members,
     lldp |-> [p \in LldpPorts |-> IF p \in DOMAIN lldp THEN lldp[p] ELSE <<>>]]

Unreachable == Answers(FALSE, "", <<>>, <<>>)

\* _find_switch_by_hostname: the switch of that name, <<>> for None
find_switch_by_hostname(sws, h) == IF h \in sws THEN <<h>> ELSE <<>>

TraceStep(d, port, ptype, nb) == [sw |-> d, port |-> port, ptype |-> ptype, nb |-> nb]

\* an entry of the trace path of a result
PathEntry(d, port, note) == [sw |-> d, port |-> port, note |-> note]

\* the loop over the trunk members (lines 454-476): a step per member with
\* a neighbour, until one of the neighbours is a switch of the database
RECURSIVE TryMembers(_, _, _, _, _)
TryMembers(sws, A, d, members, path) ==
    IF members = <<>> THEN [path |-> path, next |-> <<>>]
    ELSE LET m  == Head(members)
             nb == A.lldp[m]
             p2 == Append(path, TraceStep(d, <<A.port, m>>, "eth-trunk", nb))
         IN IF nb = <<>> THEN TryMembers(sws, A, d, Tail(members), path)
            ELSE IF find_switch_by_hostname(sws, nb[1]) # <<>>
                 THEN [path |-> p2, next |-> find_switch_by_hostname(sws, nb[1])]
                 ELSE TryMembers(sws, A, d, Tail(members), p2)

\* the walk from one core: the switch to visit, the switches visited, the
\* iterations started, the steps recorded, the sessions requested so far and
\* why the loop was left ("" while it runs)
NewWalk(core) ==
    [cur |-> core, visited |-> {}, hop |-> 0, path |-> <<>>, asked |-> <<>>, why |-> ""]

\* a walk that never recognises a switch it has visited
LoopNeverDetected(W) == FALSE

\* `if current_switch.hostname in visited_switches`
LoopDetected(W) == W.cur \in W.visited

\* _get_ssh_connection: the cached session if it still answers, else a new
\* one; a dead cached session is dropped
get_ssh_connection(N, conns, d) ==
    IF N[d].up THEN [ok |-> TRUE, conns |-> conns \cup {d}]
    ELSE [ok |-> FALSE, conns |-> conns \ {d}]

\* one iteration of the loop of _trace_from_single_core (lines 417-552),
\* after the session has been obtained
Probe(sws, A, W) ==
    LET d == W.cur
    IN IF A.port = "" THEN [W EXCEPT !.why = "absent"]
       ELSE IF IsTrunkName(A.port)
       THEN IF A.members = <<>>
            THEN [W EXCEPT !.path = Append(@, TraceStep(d, <<A.port>>, "eth-trunk", <<>>)),
                           !.why = "nomembers"]
            ELSE LET T == TryMembers(sws, A, d, A.members, W.path)
                 IN IF T.next = <<>> THEN [W EXCEPT !.path = T.path, !.why = "nopath"]
                    ELSE [W EXCEPT !.path = T.path, !.cur = T.next[1]]
       ELSE LET nb == A.lldp[A.port]
            IN IF nb = <<>>
               THEN [W EXCEPT !.path = Append(@, TraceStep(d, <<A.port>>, "access", <<>>)),
                              !.why = "endpoint"]
               ELSE LET step == TraceStep(d, <<A.port>>, "uplink", nb)
                        next == find_switch_by_hostname(sws, nb[1])
                    IN IF next # <<>>
                       THEN [W EXCEPT !.path = Append(@, step), !.cur = next[1]]
                       ELSE [W EXCEPT !.path = Append(@, step), !.why = "foreign"]

\* what the walk returns (lines 509-570): <<>> for None
EndpointInfo(d, host, port, confirmed, path) ==
    <<[sw |-> d, host |-> host, port |-> port, confirmed |-> confirmed, path |-> path]>>

\* `f"{s.switch_hostname}:{s.port_name}"` of every step
TraceNames(path) == [i \in DOMAIN path |-> PathEntry(path[i].sw, path[i].port, "")]

WalkResult(W) ==
    LET last_step == W.path[Len(W.path)]
    IN IF W.why = "endpoint"
       THEN EndpointInfo(W.cur, W.cur, last_step.port, TRUE, TraceNames(W.path))
       ELSE IF W.path # <<>>
       THEN EndpointInfo(W.cur, last_step.sw, last_step.port, FALSE, TraceNames(W.path))
       ELSE <<>>

\* _find_core_switch_for_site: the first switch of the site whose name holds
\* "L3", else the first whose address ends in .251, else the first whose
\* name holds "core"; <<>> for None
FirstOf(S) == IF S = {} THEN <<>> ELSE <<Min(S)>>

find_core_switch_for_site(H, sws, site) ==
    LET here == {d \in sws : H[d].site = site}
        l3   == {d \in here : H[d].tier = "L3"}
        gw   == {d \in here : H[d].gw}
        core == {d \in here : H[d].tier = "Core"}
    IN IF l3 # {} THEN FirstOf(l3) ELSE IF gw # {} THEN FirstOf(gw) ELSE FirstOf(core)

\* _get_all_core_switches: the "L3" switches and those named "core", by id
get_all_core_switches(H, sws) == Ascending({d \in sws : H[d].tier \in {"L3", "Core"}})

\* _extract_site_code of the switch of any Location of the address
SiteOfAddress(H, T) ==
    IF T.locs = <<>> THEN "" ELSE H[T.ports[T.locs[1]].sw].site

\* trace_via_ssh, lines 346-395: the cores to walk from, and whether the
\* walk moves on to the next core when one has found nothing
CoresToTry(H, T, sws, site) ==
    LET code == IF site # "" THEN site ELSE SiteOfAddress(H, T)
    IN IF code = ""
       THEN [each |-> TRUE, cores |-> get_all_core_switches(H, sws)]
       ELSE [each |-> FALSE, cores |-> find_core_switch_for_site(H, sws, code)]

----------------------------------------------------------------------------
(* MacEndpointTracer, offline strategy: trace_from_core and trace_endpoint *)
(* over the persisted tables.  D is what the tracer reads: the tables T,   *)
(* the switches sws, their names H and the address counts C of the ports;  *)
(* the Locations T.locs are those of the traced address, in row order.     *)

\* UPLINK_MAC_THRESHOLD and the cut-offs of trace_endpoint
UPLINK_MAC_THRESHOLD == 5

\* port names of the traced site and what _normalize_port_name and
\* _extract_port_number (<<>> for None) make of them
TracedPortNames == {"Agg1", "Eth-Trunk1", "Gi0/0/1", "Gi0/0/3", "GE0/0/3"}

tracer_normalize_port_name(n) ==
    CASE n = "Agg1"       -> "agg1"
      [] n = "Eth-Trunk1" -> "eth-trunk1"
      [] n = "Gi0/0/1"    -> "gi0/0/1"
      [] n = "Gi0/0/3"    -> "gi0/0/3"
      [] n = "GE0/0/3"    -> "0/0/3"
      [] OTHER            -> n

extract_port_number(n) ==
    CASE n \in {"Gi0/0/3", "GE0/0/3"} -> <<3>>
      [] n = "Gi0/0/1"                -> <<1>>
      [] OTHER                        -> <<>>

\* `'trunk' in port_name_lower or 'eth-trunk' in port_name_lower`
IsTrunkPort(n) == n \in {"Eth-Trunk1"}

Database == [T |-> Tables, sws |-> switches, H |-> names, C |-> crowd]

\* the Locations of the address on one switch, as port ids in row order
RECURSIVE LocsOn(_, _, _)
LocsOn(D, rows, d) ==
    IF rows = <<>> THEN <<>>
    ELSE (IF D.T.ports[Head(rows)].exists /\ D.T.ports[Head(rows)].sw = d
          THEN <<Head(rows)>> ELSE <<>>) \o LocsOn(D, Tail(rows), d)

\* _get_equivalent_port_ids: same normalised name or same port number
get_equivalent_port_ids(D, d, p) ==
    IF ~D.T.ports[p].exists THEN {p}
    ELSE {p} \cup
         {q \in Existing(D.T) :
            /\ D.T.ports[q].sw = d
            /\ \/ tracer_normalize_port_name(D.T.ports[q].name)
                    = tracer_normalize_port_name(D.T.ports[p].name)
               \/ /\ extract_port_number(D.T.ports[p].name) # <<>>
                  /\ extract_port_number(D.T.ports[q].name)
                       = extract_port_number(D.T.ports[p].name)}

\* _get_lldp_neighbor: the first link that has one of the equivalent ports
\* as its local or as its remote port; <<>> for None
RECURSIVE FirstLink(_, _, _)
FirstLink(D, d, pids) ==
    IF pids = <<>> THEN <<>>
    ELSE LET out == {l \in D.T.links : l.lsw = d /\ l.lport = Head(pids)}
             back == {l \in D.T.links : l.rsw = d /\ l.rport = Head(pids)}
         IN IF out # {} THEN <<CHOOSE l \in out : \A m \in out : l.id <= m.id>>
            ELSE IF back # {} THEN <<CHOOSE l \in back : \A m \in back : l.id <= m.id>>
            ELSE FirstLink(D, d, Tail(pids))

get_lldp_neighbor(D, d, p) == FirstLink(D, d, Ascending(get_equivalent_port_ids(D, d, p)))

\* _get_lldp_neighbor_for_port_name: the remote switch of the first link of
\* a port of that normalised name; <<>> for None
RECURSIVE FirstNeighbor(_, _, _)
FirstNeighbor(D, d, pids) ==
    IF pids = <<>> THEN <<>>
    ELSE LET link == get_lldp_neighbor(D, d, Head(pids))
         IN IF link # <<>> /\ link[1].rsw \in D.sws THEN <<link[1].rsw>>
            ELSE FirstNeighbor(D, d, Tail(pids))

get_lldp_neighbor_for_port_name(D, d, n) ==
    FirstNeighbor(D, d, Ascending({p \in Existing(D.T) :
        /\ D.T.ports[p].sw = d
        /\ tracer_normalize_port_name(D.T.ports[p].name) = tracer_normalize_port_name(n)}))

\* _get_mac_count_on_port
get_mac_count_on_port(D, p) == D.C[p]

\* _get_eth_trunk_members: the local ports of the first remote switch that
\* two or more links of this switch lead to
LinksFrom(D, d) == LinkList({l \in D.T.links : l.lsw = d})

RECURSIVE FirstGroup(_, _, _)
FirstGroup(D, all, todo) ==
    IF todo = <<>> THEN <<>>
    ELSE LET group == SelectSeq(all, LAMBDA l : l.rsw = Head(todo).rsw)
             local == SelectSeq(group, LAMBDA l : l.lport \in Existing(D.T))
         IN IF Len(group) >= 2 /\ local # <<>>
            THEN [i \in DOMAIN local |-> D.T.ports[local[i].lport].name]
            ELSE FirstGroup(D, all, Tail(todo))

get_eth_trunk_members(D, d, trunk) == FirstGroup(D, LinksFrom(D, d), LinksFrom(D, d))

RECURSIVE trace_downstream(_, _, _, _, _)
RECURSIVE FollowSite(_, _, _, _, _, _)
RECURSIVE FollowMembers(_, _, _, _, _)

\* trunk without members (lines 883-909): the first linked "L2" switch of the
\* same site that has a Location of the address
FollowSite(D, d, port, todo, visited, path) ==
    IF todo = <<>>
    THEN EndpointInfo(d, d, <<port>>, FALSE, Append(path, PathEntry(d, <<port>>, "UNRESOLVED")))
    ELSE LET r == Head(todo).rsw
         IN IF /\ r \in D.sws /\ D.H[d].site # ""
               /\ D.H[r].site = D.H[d].site /\ D.H[r].tier = "L2"
               /\ LocsOn(D, D.T.locs, r) # <<>>
            THEN trace_downstream(D, r, D.T.ports[LocsOn(D, D.T.locs, r)[1]].name, visited, path)
            ELSE FollowSite(D, d, port, Tail(todo), visited, path)

\* trunk with members (lines 923-947): the first member whose neighbour has
\* a Location of the address
FollowMembers(D, d, members, visited, path) ==
    IF members = <<>> THEN <<>>
    ELSE LET nb == get_lldp_neighbor_for_port_name(D, d, Head(members))
         IN IF nb # <<>> /\ LocsOn(D, D.T.locs, nb[1]) # <<>>
            THEN trace_downstream(D, nb[1], D.T.ports[LocsOn(D, D.T.locs, nb[1])[1]].name,
                                  visited, path)
            ELSE FollowMembers(D, d, Tail(members), visited, path)

\* _trace_downstream
trace_downstream(D, d, port, visited, path) ==
    IF d \in visited THEN <<>>
    ELSE LET seen == visited \cup {d}
             here == Append(path, PathEntry(d, <<port>>, ""))
             nb   == get_lldp_neighbor_for_port_name(D, d, port)
         IN IF IsTrunkPort(port)
            THEN IF get_eth_trunk_members(D, d, port) = <<>>
                 THEN FollowSite(D, d, port, LinksFrom(D, d), seen, here)
                 ELSE FollowMembers(D, d, get_eth_trunk_members(D, d, port), seen, here)
            ELSE IF nb = <<>>
                 THEN EndpointInfo(d, d, <<port>>, TRUE, here)
            ELSE IF LocsOn(D, D.T.locs, nb[1]) = <<>>
                 THEN EndpointInfo(d, d, <<port>>, TRUE,
                                   Append(here, PathEntry(nb[1], <<>>, "neighbor doesn't see MAC")))
            ELSE trace_downstream(D, nb[1], D.T.ports[LocsOn(D, D.T.locs, nb[1])[1]].name,
                                  seen, here)

\* trace_endpoint, lines 1459-1470: the distinct (switch, port) pairs of the
\* Locations of the address, as the GROUP BY returns them
GroupedLocations(D) ==
    LET ps == {D.T.locs[i] : i \in DOMAIN D.T.locs} \cap Existing(D.T)
        RECURSIVE Sorted(_)
        Sorted(S) ==
            IF S = {} THEN <<>>
            ELSE LET p == CHOOSE x \in S : \A y \in S :
                            \/ D.T.ports[x].sw < D.T.ports[y].sw
                            \/ D.T.ports[x].sw = D.T.ports[y].sw /\ x <= y
                 IN <<p>> \o Sorted(S \ {p})
    IN Sorted(ps)

\* a tracer whose query returns the rows in an order that depends on the
\* method of the request
CandidatesByMethod(D) ==
    LET rows == GroupedLocations(D)
        back == [i \in DOMAIN rows |-> rows[Len(rows) + 1 - i]]
    IN SelectSeq(IF tr.method = "ssh" THEN back ELSE rows, LAMBDA p : D.T.ports[p].sw \in D.sws)

\* lines 1488-1504: the rows whose switch and port exist
Candidates(D) == SelectSeq(GroupedLocations(D), LAMBDA p : D.T.ports[p].sw \in D.sws)

\* the score of one candidate (lines 1506-1567)
Scored(D, p) ==
    LET d     == D.T.ports[p].sw
        with  == {D.T.ports[q].sw : q \in {Candidates(D)[i] : i \in DOMAIN Candidates(D)}}
        link  == get_lldp_neighbor(D, d, p)
        known == link # <<>> /\ link[1].rsw \in D.sws
        lldp  == IF link = <<>> THEN 100
                 ELSE IF ~known THEN 0
                 ELSE IF link[1].rsw \notin with THEN 80 ELSE -50
        n     == get_mac_count_on_port(D, p)
        tier  == IF D.H[d].tier \in {"L3", "Core"} THEN -10
                 ELSE IF D.H[d].tier = "L2" THEN 10 ELSE 0
        count == IF n > 50 THEN -800
                 ELSE IF n > 20 THEN lldp - 150
                 ELSE IF n > UPLINK_MAC_THRESHOLD THEN lldp - 50
                 ELSE IF n <= 3 THEN lldp + 50
                 ELSE lldp + 20
    IN IF IsTrunkPort(D.T.ports[p].name)
       THEN [p |-> p, score |-> -1000, no_mac |-> FALSE, has_mac |-> FALSE,
             access |-> FALSE, count |-> 0, info |-> FALSE]
       ELSE [p |-> p, score |-> count + tier,
             no_mac |-> known /\ link[1].rsw \notin with,
             has_mac |-> known /\ link[1].rsw \in with,
             access |-> D.H[d].tier = "L2", count |-> n, info |-> known]

\* list.sort by a key: the first of the best ones
RECURSIVE FirstBest(_, _, _)
FirstBest(seq, Better(_, _), best) ==
    IF seq = <<>> THEN best
    ELSE FirstBest(Tail(seq), Better, IF Better(Head(seq), best) THEN Head(seq) ELSE best)

trace_endpoint(D) ==
    LET cands   == Candidates(D)
        scored  == [i \in DOMAIN cands |-> Scored(D, cands[i])]
        info    == [i \in DOMAIN SelectSeq(scored, LAMBDA s : s.info) |->
                       PathEntry(D.T.ports[SelectSeq(scored, LAMBDA s : s.info)[i].p].sw,
                                 <<D.T.ports[SelectSeq(scored, LAMBDA s : s.info)[i].p].name>>,
                                 "neighbor")]
        best    == FirstBest(Tail(scored), LAMBDA a, b : a.score > b.score, Head(scored))
        deepest == SelectSeq(scored, LAMBDA s : s.no_mac /\ ~s.has_mac)
        deep    == FirstBest(Tail(deepest),
                             LAMBDA a, b : \/ a.access /\ ~b.access
                                           \/ a.access = b.access /\ a.count < b.count,
                             Head(deepest))
        Info(s, confirmed, note) ==
            EndpointInfo(D.T.ports[s.p].sw, D.T.ports[s.p].sw, <<D.T.ports[s.p].name>>, confirmed,
                         IF note = "" THEN info
                         ELSE Append(info, PathEntry(D.T.ports[s.p].sw, <<D.T.ports[s.p].name>>, note)))
    IN IF cands = <<>> THEN <<>>
       ELSE IF best.score > -500 THEN Info(best, best.score > 50, "")
       ELSE IF deepest # <<>> THEN Info(deep, FALSE, "Behind unmanaged device")
       ELSE Info(best, FALSE, "UNCERTAIN")

\* trace_from_core: from the core of the site of the address down the links;
\* trace_endpoint when the site has no core or the core has no Location
trace_from_core(D) ==
    LET site == SiteOfAddress(D.H, D.T)
        core == find_core_switch_for_site(D.H, D.sws, site)
    IN IF D.T.locs = <<>> \/ site = "" THEN <<>>
       ELSE IF core = <<>> \/ LocsOn(D, D.T.locs, core[1]) = <<>> THEN trace_endpoint(D)
       ELSE trace_downstream(D, core[1], D.T.ports[LocsOn(D, D.T.locs, core[1])[1]].name, {}, <<>>)

\* the offline part of the trace request (macs.py, lines 888-896)
OfflineTrace(D) ==
    IF trace_from_core(D) = <<>> THEN trace_endpoint(D) ELSE trace_from_core(D)

----------------------------------------------------------------------------
(* The trace request (api/macs.py, trace_mac_endpoint)                     *)

NoWalk == [NewWalk(1) EXCEPT !.why = "idle"]

\* no request in progress, none answered yet.  `log` lists the switches the
\* live trace of the request has asked for a session, over all its walks;
\* `prev` holds the persisted state and the result of the latest answer of
\* the offline tracer
IdleTrace ==
    [pc |-> "idle", method |-> "", each |-> FALSE, cores |-> <<>>, W |-> NoWalk,
     conns |-> {}, log |-> <<>>, live |-> "", res |-> <<>>, prev |-> <<>>]

NoNet == [d \in Site |-> Unreachable]
NoNames == [d \in Site |-> [site |-> "", tier |-> "", gw |-> FALSE]]
NoResponse == [sw |-> 0, status |-> ""]

\* no trace has been requested and no switch deleted
InitNoTrace ==
    /\ net = NoNet
    /\ names = NoNames
    /\ crowd = [p \in PortIds |-> 0]
    /\ tr = IdleTrace
    /\ deleted = NoResponse

----------------------------------------------------------------------------
(* Initial state: a fresh database whose ports table holds what a topology *)
(* refresh may already have written                                        *)

NoPorts == [k \in PortKeys |-> NoPort]

\* at most one port carries a neighbour tag before the first pass
InitPortTables ==
    {NoPorts} \cup {[NoPorts EXCEPT ![k] = LldpPort(t)] : k \in PortKeys, t \in {"switch", "ap"}}

\* no graph built yet, no request in progress
InitGraph ==
    /\ graph = EmptyGraph(FALSE)
    /\ snap = EmptyGraph(FALSE)
    /\ lock = NoThread
    /\ th = [t \in Threads |-> IdleThread]
    /\ rf = "idle"

\* the discovered devices, no topology yet
InitNoTopology ==
    /\ switches = Devices
    /\ portRows = [p \in PortIds |-> NoRow]
    /\ locRefs = <<>>
    /\ histRefs = <<>>
    /\ links = {}
    /\ InitGraph
    /\ InitNoTrace

InitWorkers ==
    /\ status = "idle"
    /\ wk = [w \in Workers |-> IdleWorker]
    /\ clock = 0
    /\ last = NoLast

InitControl ==
    /\ fallback \in {[d \in Devices |-> FALSE], [d \in Devices |-> TRUE]}
    /\ InitWorkers
    /\ InitNoTopology

InitFresh(tables) ==
    /\ ports \in tables
    /\ macs = {}
    /\ locs = <<>>
    /\ hist = <<>>
    /\ logs = <<>>
    /\ InitControl

\* the database after one command-line pass on device 1 that found MacX on
\* the aggregation link
InitSeeded ==
    /\ ports = [NoPorts EXCEPT ![<<1, "Eth-Trunk1">>] = NewPort(TRUE)]
    /\ macs = {MacX}
    /\ locs = <<[MacLocation("single", MacX, 1, "Eth-Trunk1", 0) EXCEPT !.st = "c"]>>
    /\ hist = <<[MacHistory("single", MacX, 1, "Eth-Trunk1", "new", 0, "") EXCEPT !.st = "c"]>>
    /\ logs = <<[sw |-> 1, type |-> "cli", status |-> "success"]>>
    /\ InitControl

Init == InitFresh({NoPorts}) \/ InitSeeded

InitTagged == InitFresh(InitPortTables)

\* write a session state back
Store(w, S) ==
    /\ locs' = S.locs
    /\ hist' = S.hist
    /\ ports' = S.ports
    /\ macs' = S.macs
    /\ wk' = [wk EXCEPT ![w] = S.me]

----------------------------------------------------------------------------
(* Entry points *)

\* POST /discovery/start
start_discovery ==
    /\ wk["manual"].pc = "idle"
    /\ status # "running"
    /\ status' = "running"
    /\ wk' = [wk EXCEPT !["manual"].pc = "queued"]
    /\ UNCHANGED <<reqVars, topoVars, cache, last, ports, macs, locs, hist, logs, fallback, clock>>

\* run_discovery_task, up to the loop: as background task of the manual start
\* or called by DiscoveryScheduler._run_discovery
run_discovery_task(w) ==
    /\ wk[w].pc = IF w = "manual" THEN "queued" ELSE "idle"
    /\ status' = "running"
    /\ wk' = [wk EXCEPT ![w].pc = "next", ![w].idx = 1]
    /\ UNCHANGED <<reqVars, topoVars, cache, last, ports, macs, locs, hist, logs, fallback, clock>>

BeginPass(me, d, path, t) ==
    [me EXCEPT !.pc = "query", !.dev = d, !.path = path, !.t = t, !.rows = <<>>,
               !.ouis = FALSE, !.result = "success"]

\* loop head of run_discovery_task: the next active switch, SNMP first
NextSwitch(w) ==
    /\ wk[w].pc = "next"
    /\ wk[w].idx \in Devices
    /\ clock < MaxPasses
    /\ clock' = clock + 1
    /\ wk' = [wk EXCEPT ![w] = BeginPass(@, wk[w].idx, "snmp", clock + 1)]
    /\ UNCHANGED <<reqVars, topoVars, cache, last, ports, macs, locs, hist, logs, fallback, status>>

\* a loop end that leaves the status as it is
FleetDoneSilent(w) ==
    /\ wk[w].pc = "next"
    /\ wk[w].idx \notin Devices
    /\ wk' = [wk EXCEPT ![w].pc = "idle", ![w].idx = 0]
    /\ graph' = Rebuilt(graph, switches, links)
    /\ snap' = graph'
    /\ UNCHANGED <<reqVars, topoVars, last, ports, macs, locs, hist, logs, fallback, status, clock>>

\* after the loop
FleetDone(w) ==
    /\ wk[w].pc = "next"
    /\ wk[w].idx \notin Devices
    /\ status' = "completed"
    /\ wk' = [wk EXCEPT ![w].pc = "idle", ![w].idx = 0]
    /\ graph' = Rebuilt(graph, switches, links)
    /\ snap' = graph'
    /\ UNCHANGED <<reqVars, topoVars, last, ports, macs, locs, hist, logs, fallback, clock>>

\* POST /discovery/switch/{switch_id}
discover_single_switch(d, use_ssh) ==
    /\ wk["single"].pc = "idle"
    /\ clock < MaxPasses
    /\ clock' = clock + 1
    /\ wk' = [wk EXCEPT !["single"] =
                BeginPass(@, d, IF use_ssh \/ fallback[d] THEN "ssh" ELSE "snmp", clock + 1)]
    /\ UNCHANGED <<reqVars, topoVars, cache, last, ports, macs, locs, hist, logs, fallback, status>>

----------------------------------------------------------------------------
(* discover_switch of either service *)

\* _query_snmp / _query_ssh return the device's rows
Collected(w, rows) ==
    /\ wk[w].pc = "query"
    /\ wk' = [wk EXCEPT ![w].rows = rows,
                        ![w].pc = IF wk[w].path = "snmp" THEN "stale" ELSE "rows"]
    /\ UNCHANGED <<reqVars, topoVars, cache, ports, macs, locs, hist, logs, fallback, status, clock>>

QueryOk(w, rows) == Collected(w, rows) /\ UNCHANGED last

\* the same, remembering what was collected
Collect(w, rows) ==
    /\ Collected(w, rows)
    /\ last' = [dev |-> wk[w].dev, path |-> wk[w].path, rows |-> rows, again |-> FALSE]

\* the device's table has not changed since the pass before, which succeeded
Recollect(w) ==
    /\ last.dev = wk[w].dev
    /\ last.path = wk[w].path
    /\ logs # <<>>
    /\ logs[Len(logs)].sw = wk[w].dev
    /\ logs[Len(logs)].status = "success"
    /\ Collected(w, last.rows)
    /\ last' = [last EXCEPT !.again = TRUE]

\* the query raises: caught by discover_switch, the result is an error
QueryFail(w) ==
    /\ wk[w].pc = "query"
    /\ wk' = [wk EXCEPT ![w].result = "error", ![w].pc = "log"]
    /\ UNCHANGED <<reqVars, topoVars, cache, last, ports, macs, locs, hist, logs, fallback, status, clock>>

Stale(w) ==
    /\ wk[w].pc = "stale"
    /\ LET S == StaleCleanup(w, Here(w))
       IN Store(w, [S EXCEPT !.me.pc = "rows"])
    /\ UNCHANGED <<reqVars, topoVars, cache, last, logs, fallback, status, clock>>

\* mac_addresses.mac_address is unique: the INSERT of an address waits for
\* the session that has already inserted it and not yet committed
InsertBlocked(w, m) ==
    /\ ~MacKnown(Here(w), m)
    /\ \E v \in Workers \ {w} : m \in wk[v].smacs

Row(w) ==
    /\ wk[w].pc = "rows"
    /\ wk[w].rows # <<>>
    /\ ~InsertBlocked(w, Head(wk[w].rows).mac)
    /\ \E r \in {IF wk[w].path = "snmp" THEN SnmpRow(w, Here(w), Head(wk[w].rows))
                                          ELSE SshRow(w, Here(w), Head(wk[w].rows))} :
          IF r.raised
          THEN Store(w, [r.S EXCEPT !.me.result = "error", !.me.pc = "log"])
          ELSE Store(w, [r.S EXCEPT !.me.rows = Tail(@)])
    /\ UNCHANGED <<reqVars, topoVars, cache, last, logs, fallback, status, clock>>

\* end of _process_mac_entries and of the try block: final commit
Finish(w) ==
    /\ wk[w].pc = "rows"
    /\ wk[w].rows = <<>>
    /\ LET S == Commit(w, Here(w))
       IN Store(w, [S EXCEPT !.me.pc = "log"])
    /\ UNCHANGED <<reqVars, topoVars, cache, last, logs, fallback, status, clock>>

DiscoveryLog(w) ==
    [sw |-> wk[w].dev, type |-> IF wk[w].path = "snmp" THEN "snmp" ELSE "cli",
     status |-> wk[w].result]

\* a fleet loop that gives up at the first device that fails
AfterPassAborting(w, me) ==
    IF me.result # "success" THEN [me EXCEPT !.pc = "idle"]
    ELSE IF w \in FleetWorkers
         THEN [me EXCEPT !.pc = "next", !.idx = @ + 1]
         ELSE [me EXCEPT !.pc = "idle"]

\* a fleet loop that leaves out the devices after one that failed
AfterPassSkippingRest(w, me) ==
    IF me.result # "success" /\ me.path = "snmp" /\ fallback[me.dev]
    THEN BeginPass(me, me.dev, "ssh", me.t)
    ELSE IF w \in FleetWorkers
         THEN [me EXCEPT !.pc = "next",
                         !.idx = IF me.result # "success"
                                 THEN Cardinality(Devices) + 1 ELSE @ + 1]
         ELSE [me EXCEPT !.pc = "idle"]

\* where the caller goes after discover_switch returned
AfterPass(w, me) ==
    IF me.result # "success" /\ me.path = "snmp" /\ fallback[me.dev]
    THEN BeginPass(me, me.dev, "ssh", me.t)
    ELSE IF w \in FleetWorkers
         THEN [me EXCEPT !.pc = "next", !.idx = @ + 1]
         ELSE [me EXCEPT !.pc = "idle"]

\* _log_discovery: add the log row and commit the session
LogDiscovery(w) ==
    /\ wk[w].pc = "log"
    /\ logs' = Append(logs, DiscoveryLog(w))
    /\ LET S == Commit(w, Here(w))
       IN /\ Store(w, [S EXCEPT !.me = AfterPass(w, S.me)])
          /\ IF w = "single" /\ AfterPass(w, S.me).pc = "idle"
             THEN graph' = Rebuilt(graph, switches, links) /\ snap' = graph'
             ELSE UNCHANGED cache
    /\ UNCHANGED <<reqVars, topoVars, last, fallback, status, clock>>

Next ==
    \/ start_discovery
    \/ \E w \in FleetWorkers : run_discovery_task(w)
    \/ \E w \in FleetWorkers : NextSwitch(w)
    \/ \E w \in FleetWorkers : FleetDone(w)
    \/ \E d \in Devices, use_ssh \in BOOLEAN : discover_single_switch(d, use_ssh)
    \/ \E w \in Workers, rows \in SharedSnapshots : QueryOk(w, rows)
    \/ \E w \in Workers : QueryFail(w)
    \/ \E w \in Workers : Stale(w)
    \/ \E w \in Workers : Row(w)
    \/ \E w \in Workers : Finish(w)
    \/ \E w \in Workers : LogDiscovery(w)

Spec == Init /\ [][Next]_vars

\* on-demand passes only, one after the other
NextSeq ==
    \/ \E d \in Devices, use_ssh \in BOOLEAN : discover_single_switch(d, use_ssh)
    \/ \E rows \in Snapshots : QueryOk("single", rows)
    \/ QueryFail("single")
    \/ Stale("single")
    \/ Row("single")
    \/ Finish("single")
    \/ LogDiscovery("single")

SpecSeq == InitTagged /\ [][NextSeq]_vars

\* scheduled fleet runs only
NextFleet ==
    \/ run_discovery_task("sched")
    \/ NextSwitch("sched")
    \/ FleetDone("sched")
    \/ \E rows \in Snapshots : QueryOk("sched", rows)
    \/ QueryFail("sched")
    \/ Stale("sched")
    \/ Row("sched")
    \/ Finish("sched")
    \/ LogDiscovery("sched")

SpecFleet == InitTagged /\ [][NextFleet]_vars

\* the database of InitSeeded, possibly after a topology refresh that found
\* an access point on port GE0/0/1 of device 2
InitRepeat ==
    /\ InitSeeded
       \/ /\ ports = [NoPorts EXCEPT ![<<1, "Eth-Trunk1">>] = NewPort(TRUE),
                                      ![<<2, "GE0/0/1">>] = LldpPort("ap")]
          /\ macs = {MacX}
          /\ locs = <<[MacLocation("single", MacX, 1, "Eth-Trunk1", 0) EXCEPT !.st = "c"]>>
          /\ hist = <<[MacHistory("single", MacX, 1, "Eth-Trunk1", "new", 0, "") EXCEPT !.st = "c"]>>
          /\ logs = <<[sw |-> 1, type |-> "cli", status |-> "success"]>>
          /\ InitControl

\* on-demand passes, one after the other, a pass may find the table unchanged
NextRepeat ==
    \/ \E d \in Devices, use_ssh \in BOOLEAN : discover_single_switch(d, use_ssh)
    \/ \E rows \in Snapshots : Collect("single", rows)
    \/ Recollect("single")
    \/ QueryFail("single")
    \/ Stale("single")
    \/ Row("single")
    \/ Finish("single")
    \/ LogDiscovery("single")

SpecRepeat == InitRepeat /\ [][NextRepeat]_vars

----------------------------------------------------------------------------
(* One whole discover_switch call as a function of the persisted state *)

\* the loop over the rows: stops at the first row that raises
RECURSIVE ClassifyRows(_, _)
ClassifyRows(w, S) ==
    IF S.me.rows = <<>> THEN [raised |-> FALSE, S |-> S]
    ELSE LET e == Head(S.me.rows)
             r == IF S.me.path = "snmp" THEN SnmpRow(w, S, e) ELSE SshRow(w, S, e)
         IN IF r.raised THEN r
            ELSE ClassifyRows(w, [r.S EXCEPT !.me.rows = Tail(@)])

\* discover_switch of the service for the given method: cleanup (SNMP only),
\* rows, final commit unless a row raised, then the commit of _log_discovery
DiscoverSwitch(w, S, d, path, rows, t) ==
    LET S0 == [S EXCEPT !.me = [BeginPass(@, d, path, t) EXCEPT !.rows = rows]]
        S1 == IF path = "snmp" THEN StaleCleanup(w, S0) ELSE S0
        r  == ClassifyRows(w, S1)
        S2 == Commit(w, r.S)
    IN [status |-> IF r.raised THEN "error" ELSE "success", S |-> S2]

\* discover_single_switch (api/discovery.py:240-251)
OnDemandPass(S, d, use_ssh, rows, t) ==
    DiscoverSwitch("single", S, d,
                   IF use_ssh \/ fallback[d] THEN "ssh" ELSE "snmp", rows, t).S

\* one iteration of the loop of run_discovery_task (api/discovery.py:111-127)
FleetPass(S, d, rows, t) ==
    LET r == DiscoverSwitch("sched", S, d, "snmp", rows, t)
    IN IF r.status # "success" /\ fallback[d]
       THEN DiscoverSwitch("sched", r.S, d, "ssh", rows, t).S
       ELSE r.S

----------------------------------------------------------------------------
(* MacDiscoveryService, the stand-alone collector writing with plain SQL *)

\* discover_switch of the collector: an error, or rows named by ifName
IfEntries == [mac : MACs, if_name : PortNames]
IfTables == UNION {[1..k -> IfEntries] : k \in 0..MaxSharedRows}
Results ==
    [Devices -> {[error |-> TRUE, macs |-> <<>>]}
                \cup {[error |-> FALSE, macs |-> t] : t \in IfTables}]

\* lines 236-306, one row: get-or-create address and port, then UPDATE of
\* the address's current Location or INSERT of one
SaveEntry(T, d, e, now) ==
    LET k   == <<d, e.if_name>>
        cur == {i \in DOMAIN T.locs :
                  T.locs[i].st = "c" /\ T.locs[i].mac = e.mac /\ T.locs[i].cur}
    IN [macs  |-> T.macs \cup {e.mac},
        ports |-> IF T.ports[k].exists THEN T.ports
                  ELSE [T.ports EXCEPT ![k] = NewPort(FALSE)],
        locs  |-> IF cur # {}
                  THEN [T.locs EXCEPT ![Min(cur)] =
                          [@ EXCEPT !.sw = d, !.port = e.if_name, !.seen = now]]
                  ELSE Append(T.locs,
                              [MacLocation("tool", e.mac, d, e.if_name, now) EXCEPT !.st = "c"])]

RECURSIVE SaveRows(_, _, _, _)
SaveRows(T, d, rows, now) ==
    IF rows = <<>> THEN T
    ELSE SaveRows(SaveEntry(T, d, Head(rows), now), d, Tail(rows), now)

RECURSIVE SaveResults(_, _, _, _)
SaveResults(T, results, ds, now) ==
    IF ds = <<>> THEN T
    ELSE LET d  == Head(ds)
             T1 == IF results[d].error THEN T ELSE SaveRows(T, d, results[d].macs, now)
         IN SaveResults(T1, results, Tail(ds), now)

\* save_results_to_db: one sqlite3 transaction over all results
save_results_to_db(results) ==
    /\ clock < MaxPasses
    /\ clock' = clock + 1
    /\ LET T == SaveResults([macs |-> macs, ports |-> ports, locs |-> locs],
                            results, Ascending(Devices), clock + 1)
       IN macs' = T.macs /\ ports' = T.ports /\ locs' = T.locs
    /\ UNCHANGED <<reqVars, topoVars, cache, hist, logs, fallback, status, wk, last>>

\* on-demand passes and runs of the stand-alone collector
NextTool ==
    \/ NextSeq
    \/ \E results \in Results : save_results_to_db(results)

SpecTool == InitTagged /\ [][NextTool]_vars

----------------------------------------------------------------------------
(* Topology refresh, switch deletion and the requests of the graph API *)

StoreTables(T) ==
    /\ portRows' = T.ports
    /\ locRefs' = T.locs
    /\ histRefs' = T.hist
    /\ links' = T.links

\* POST /topology/refresh up to the loop (with fewer than two switches the
\* call returns at once): duplicate ports are merged and the merge committed
refresh_topology ==
    /\ rf = "idle"
    /\ Cardinality(switches) >= 2
    /\ rf' = "walk"
    /\ StoreTables(cleanup_duplicate_ports(Tables))
    /\ UNCHANGED <<reqVars, discoVars, cache, switches, lock, th>>

\* the loop over the switches and their neighbours, and the final commit
RefreshLinks(reports) ==
    /\ rf = "walk"
    /\ \A i \in DOMAIN reports : reports[i].sw \in switches
    /\ LET R == Neighbors([T |-> Tables, seen |-> {}, full |-> FALSE], switches, reports)
       IN ~R.full /\ StoreTables(R.T)
    /\ rf' = "idle"
    /\ UNCHANGED <<reqVars, discoVars, cache, switches, lock, th>>

PortsOf(d) == {p \in PortIds : portRows[p].exists /\ portRows[p].sw = d}

\* DELETE /switches/{id} of an existing switch (404 otherwise, nothing
\* changes): the ORM deletes the switch and its ports, the foreign keys of
\* topology_links remove or clear the rows that pointed at them.  With
\* Location rows on the switch the ORM first sets their switch_id and
\* port_id to NULL (Switch.mac_locations and Port.mac_locations carry no
\* delete cascade), the NOT NULL columns reject that and the request ends
\* in an error with nothing deleted.  A refresh in progress holds the
\* switch and is left out.
delete_switch(d) ==
    /\ d \in switches
    /\ rf = "idle"
    /\ IF \E i \in DOMAIN locRefs : locRefs[i] \in PortsOf(d)
       THEN /\ deleted' = [sw |-> d, status |-> "500"]
            /\ UNCHANGED <<switches, portRows, links>>
       ELSE /\ deleted' = [sw |-> d, status |-> "204"]
            /\ switches' = switches \ {d}
            /\ portRows' = [p \in PortIds |-> IF p \in PortsOf(d) THEN NoRow ELSE portRows[p]]
            /\ links' = {[l EXCEPT !.rport = IF @ \in PortsOf(d) THEN 0 ELSE @] :
                    l \in {x \in links : x.lsw # d /\ x.rsw # d /\ x.lport \notin PortsOf(d)}}
    /\ UNCHANGED <<traceVars, discoVars, cache, locRefs, histRefs, rf, lock, th>>

\* NetworkGraph.invalidate (POST /graph/invalidate): under the lock
invalidate ==
    /\ lock = NoThread
    /\ graph.valid
    /\ graph' = [graph EXCEPT !.valid = FALSE]
    /\ UNCHANGED <<reqVars, discoVars, tableVars, snap, rf, lock, th>>

\* POST /graph/build
build_graph(t) ==
    /\ th[t].pc = "idle"
    /\ th' = [th EXCEPT ![t] = [IdleThread EXCEPT !.pc = "want"]]
    /\ UNCHANGED <<reqVars, discoVars, tableVars, cache, rf, lock>>

\* a lookup request up to its answer: `if not graph.is_valid: graph.build(db)`
Lookup(t, op, a, b) ==
    /\ th[t].pc = "idle"
    /\ th' = [th EXCEPT ![t] = [IdleThread EXCEPT !.op = op, !.a = a, !.b = b,
                                                   !.rebuilt = ~graph.valid,
                                                   !.pc = IF graph.valid THEN "answer" ELSE "want"]]
    /\ UNCHANGED <<reqVars, discoVars, tableVars, cache, rf, lock>>

\* GET /graph/path/{from}/{to}
get_switch_path(t, a, b) == Lookup(t, "path", a, b)

\* GET /graph/neighbors/{id}
switch_neighbors(t, a) == Lookup(t, "neighbors", a, 0)

\* GET /graph/core-switches
get_core_switches(t) == Lookup(t, "core", 0, 0)

\* a build that does not wait for the lock
AcquireUnguarded(t) ==
    /\ th[t].pc = "want"
    /\ lock' = t
    /\ th' = [th EXCEPT ![t].pc = "clear"]
    /\ UNCHANGED <<reqVars, discoVars, tableVars, cache, rf>>

\* `with self._lock:` of build
Acquire(t) ==
    /\ th[t].pc = "want"
    /\ lock = NoThread
    /\ lock' = t
    /\ th' = [th EXCEPT ![t].pc = "clear"]
    /\ UNCHANGED <<reqVars, discoVars, tableVars, cache, rf>>

\* build, lines 66-69
Clear(t) ==
    /\ th[t].pc = "clear"
    /\ graph' = EmptyGraph(graph.valid)
    /\ th' = [th EXCEPT ![t].pc = "load"]
    /\ UNCHANGED <<reqVars, discoVars, tableVars, snap, rf, lock>>

\* build, lines 72-93: the switches become keys, the links are read
Load(t) ==
    /\ th[t].pc = "load"
    /\ graph' = LoadSwitches(graph, switches)
    /\ th' = [th EXCEPT ![t].pc = "edge", ![t].todo = LinkList(links)]
    /\ UNCHANGED <<reqVars, discoVars, tableVars, snap, rf, lock>>

\* build, lines 94-109
Edge(t) ==
    /\ th[t].pc = "edge"
    /\ th[t].todo # <<>>
    /\ graph' = ForwardEdge(graph, Head(th[t].todo))
    /\ th' = [th EXCEPT ![t].pc = "back"]
    /\ UNCHANGED <<reqVars, discoVars, tableVars, snap, rf, lock>>

\* build, lines 111-116
Back(t) ==
    /\ th[t].pc = "back"
    /\ graph' = ReverseEdge(graph, Head(th[t].todo))
    /\ th' = [th EXCEPT ![t].pc = "edge", ![t].todo = Tail(@)]
    /\ UNCHANGED <<reqVars, discoVars, tableVars, snap, rf, lock>>

\* build, lines 118-132: core list, is_valid, and the lock is released
Built(t) ==
    /\ th[t].pc = "edge"
    /\ th[t].todo = <<>>
    /\ graph' = FinishBuild(graph)
    /\ snap' = graph'
    /\ lock' = NoThread
    /\ th' = [th EXCEPT ![t].pc = IF th[t].op = "build" THEN "idle" ELSE "answer"]
    /\ UNCHANGED <<reqVars, discoVars, tableVars, rf>>

\* a read through `self.adjacency[id]` that creates the missing entry
AnswerInserting(t) ==
    /\ th[t].pc = "answer"
    /\ graph' = WithKey(graph, th[t].a)
    /\ snap' = snap
    /\ th' = [th EXCEPT ![t].pc = "done",
                        ![t].ans = AnswerOf(graph, th[t].op, th[t].a, th[t].b)]
    /\ UNCHANGED <<reqVars, discoVars, tableVars, rf, lock>>

\* find_path / get_switch_neighbors / core_switch_ids: the request reads
\* the graph, without the lock
Answer(t) ==
    /\ th[t].pc = "answer"
    /\ th' = [th EXCEPT ![t].pc = "done",
                        ![t].ans = AnswerOf(graph, th[t].op, th[t].a, th[t].b)]
    /\ UNCHANGED <<reqVars, discoVars, tableVars, cache, rf, lock>>

\* the response is sent
Return(t) ==
    /\ th[t].pc = "done"
    /\ th' = [th EXCEPT ![t] = IdleThread]
    /\ UNCHANGED <<reqVars, discoVars, tableVars, cache, rf, lock>>

\* NetworkGraph.find_path_to_core, called on the instance
call_find_path_to_core(t, a) ==
    /\ th[t].pc = "idle"
    /\ th' = [th EXCEPT ![t] = [IdleThread EXCEPT !.op = "to_core", !.a = a, !.pc = "answer"]]
    /\ UNCHANGED <<reqVars, discoVars, tableVars, cache, rf, lock>>

----------------------------------------------------------------------------
(* Topology specifications *)

InitDiscoveryIdle ==
    /\ ports = NoPorts
    /\ macs = {}
    /\ locs = <<>>
    /\ hist = <<>>
    /\ logs = <<>>
    /\ fallback = [d \in Devices |-> FALSE]
    /\ InitWorkers

NoRows == [p \in PortIds |-> NoRow]

\* ports as the discovery passes left them: none, or two rows on switch 1,
\* the second possibly under the ifIndex of the first
InitPortRows ==
    {NoRows} \cup
    {[NoRows EXCEPT ![1] = PortRow(1, "GE0/0/1", 1, NewPort(FALSE)),
                    ![2] = PortRow(1, "Eth-Trunk1", k, r)] :
        k \in {1, 2}, r \in {NewPort(TRUE), LldpPort("switch")}}

SeqsUpTo(S, n) == UNION {[1..k -> S] : k \in 0..n}

\* the two discovered switches, ports and references of earlier discovery
\* passes, no link and no graph yet
InitTopo ==
    /\ InitDiscoveryIdle
    /\ switches = Devices
    /\ portRows \in InitPortRows
    /\ locRefs \in SeqsUpTo({p \in PortIds : portRows[p].exists}, MaxRefs)
    /\ histRefs \in SeqsUpTo([port : {p \in PortIds : portRows[p].exists},
                              prev : {p \in PortIds : portRows[p].exists} \cup {0}], 1)
    /\ links = {}
    /\ InitGraph
    /\ InitNoTrace

\* what the two switches report on their first interface: each other as a
\* switch, or a system outside the switches table that announces itself as
\* access point
TopoReports ==
    {r \in Reports : /\ r.sw \in Devices
                     /\ r.lif.index = 1
                     /\ \/ r.remote \in Devices /\ r.kind = "switch"
                        \/ r.remote = 0 /\ r.kind = "ap" /\ r.rname = "GigabitEthernet0/0/1"}

\* topology refreshes and switch deletions, one after the other
NextTopo ==
    \/ refresh_topology
    \/ \E reports \in ReportLists(TopoReports) : RefreshLinks(reports)
    \/ \E d \in Nodes : delete_switch(d)

SpecTopo == InitTopo /\ [][NextTopo]_vars

\* the switches form a chain 1 - 2 - 3: each sees the next one, on the same
\* interface names
TrunkReports ==
    {r \in Reports : /\ r.lif.index = 1 /\ r.rname = "GigabitEthernet0/0/1"
                     /\ r.kind = "switch" /\ r.remote = r.sw + 1}

InitGraphApi ==
    /\ InitDiscoveryIdle
    /\ switches = Nodes
    /\ portRows = NoRows
    /\ locRefs = <<>>
    /\ histRefs = <<>>
    /\ links = {}
    /\ InitGraph
    /\ InitNoTrace

\* the thread that serves the lookups, and what they ask for
Readers == {1}
PathEnds == {1, 3}
Hubs == {2}

\* concurrent requests of the graph API while the topology changes
NextGraph ==
    \/ refresh_topology
    \/ \E reports \in ReportLists(TrunkReports) : RefreshLinks(reports)
    \/ \E d \in Nodes : delete_switch(d)
    \/ invalidate
    \/ \E t \in Threads : build_graph(t)
    \/ \E t \in Readers, a \in PathEnds, b \in PathEnds : get_switch_path(t, a, b)
    \/ \E t \in Readers, a \in Hubs : switch_neighbors(t, a)
    \/ \E t \in Readers : get_core_switches(t)
    \/ \E t \in Readers, a \in PathEnds : call_find_path_to_core(t, a)
    \/ \E t \in Threads : Acquire(t)
    \/ \E t \in Threads : Clear(t)
    \/ \E t \in Threads : Load(t)
    \/ \E t \in Threads : Edge(t)
    \/ \E t \in Threads : Back(t)
    \/ \E t \in Threads : Built(t)
    \/ \E t \in Threads : Answer(t)
    \/ \E t \in Threads : Return(t)

SpecGraph == InitGraphApi /\ [][NextGraph]_vars

----------------------------------------------------------------------------
(* The trace request, step by step *)

\* GET /macs/trace/{mac}: a new tracer for the request; with method "ssh"
\* the walk starts at the first core to try, without a core and with
\* method "db" the offline tracer answers
trace_mac_endpoint(method, site) ==
    /\ tr.pc = "idle"
    /\ LET C == CoresToTry(names, Tables, switches, site)
       IN tr' = IF method = "ssh" /\ C.cores # <<>>
                THEN [IdleTrace EXCEPT !.pc = "live", !.method = method, !.each = C.each,
                                       !.cores = Tail(C.cores), !.W = NewWalk(Head(C.cores)),
                                       !.prev = tr.prev]
                ELSE [IdleTrace EXCEPT !.pc = "offline", !.method = method,
                                       !.live = IF method = "ssh" THEN "none" ELSE "",
                                       !.prev = tr.prev]
    /\ UNCHANGED <<net, names, crowd, deleted, discoVars, topoVars, cache>>

\* one iteration of `for hop in range(max_hops)`
Hop ==
    /\ tr.pc = "live"
    /\ tr.W.why = ""
    /\ tr.W.hop < MaxHops
    /\ LET W == tr.W
           d == W.cur
           S == get_ssh_connection(net, tr.conns, d)
           V == [W EXCEPT !.hop = @ + 1, !.visited = @ \cup {d}, !.asked = Append(@, d)]
       IN tr' = IF LoopDetected(W)
                THEN [tr EXCEPT !.W = [W EXCEPT !.hop = @ + 1, !.why = "loop"]]
                ELSE [tr EXCEPT !.conns = S.conns,
                                !.log = Append(@, d),
                                !.W = IF ~S.ok THEN [V EXCEPT !.why = "down"]
                                      ELSE IF ~net[d].talks THEN [V EXCEPT !.why = "error"]
                                      ELSE Probe(switches, net[d], V)]
    /\ UNCHANGED <<net, names, crowd, deleted, discoVars, topoVars, cache>>

\* the end of a walk: _trace_from_single_core returns, trace_via_ssh moves
\* on to the next core or returns, and the handler keeps a live result or
\* turns to the offline tracer.  An exception of a command ends the whole
\* live trace with None.
LeaveLoop ==
    /\ tr.pc = "live"
    /\ tr.W.why # "" \/ tr.W.hop = MaxHops
    /\ LET W      == IF tr.W.why = "" THEN [tr.W EXCEPT !.why = "cap"] ELSE tr.W
           result == IF W.why = "error" THEN <<>> ELSE WalkResult(W)
       IN tr' = IF result # <<>>
                THEN [tr EXCEPT !.W = W, !.pc = "done", !.live = "found", !.res = result]
                ELSE IF W.why # "error" /\ tr.each /\ tr.cores # <<>>
                THEN [tr EXCEPT !.W = NewWalk(Head(tr.cores)), !.cores = Tail(@)]
                ELSE [tr EXCEPT !.W = W, !.pc = "offline", !.live = "none"]
    /\ UNCHANGED <<net, names, crowd, deleted, discoVars, topoVars, cache>>

\* a handler that gives up when the live trace has found nothing
OfflineSkipped ==
    /\ tr.pc = "offline"
    /\ tr' = [tr EXCEPT !.pc = "done", !.res = <<>>]
    /\ UNCHANGED <<net, names, crowd, deleted, discoVars, topoVars, cache>>

\* trace_from_core, then trace_endpoint, in one piece: no await in between
Offline ==
    /\ tr.pc = "offline"
    /\ tr' = [tr EXCEPT !.pc = "done", !.res = OfflineTrace(Database)]
    /\ UNCHANGED <<net, names, crowd, deleted, discoVars, topoVars, cache>>

\* the response (404 without a result); the tracer is dropped with the
\* request
Respond ==
    /\ tr.pc = "done"
    /\ tr' = [IdleTrace EXCEPT !.prev = IF tr.live = "found" THEN tr.prev
                                        ELSE <<[db |-> Database, res |-> tr.res]>>]
    /\ UNCHANGED <<net, names, crowd, deleted, discoVars, topoVars, cache>>

----------------------------------------------------------------------------
(* Trace specification *)

\* a switch whose port of the address leads to the switch `to`
Uplink(to) == Answers(TRUE, AccessName, <<>>, AccessName :> <<to>>)

\* a switch that holds the address on its trunk: the first member answers
\* `first`, the second leads to the switch `to`
TrunkHop(first, to) ==
    Answers(TRUE, TrunkName, MemberNames, MemberNames[1] :> first @@ MemberNames[2] :> <<to>>)

Endpoint == Answers(TRUE, AccessName, <<>>, <<>>)
NotListed == Answers(TRUE, "", <<>>, <<>>)

\* what the last switch of a chain of n may answer
Ends(n) ==
    {Unreachable, [NotListed EXCEPT !.talks = FALSE], NotListed, Endpoint, Uplink(Foreign),
     Answers(TRUE, TrunkName, <<>>, <<>>), Answers(TRUE, TrunkName, MemberNames, <<>>),
     TrunkHop(<<Foreign>>, Foreign)}
    \cup {Uplink(k) : k \in 1..n}

\* a chain of n switches from the core 1 downwards, with a trunk at switch t
Chain(n, end, t, first) ==
    [d \in Site |-> IF d < n THEN (IF d = t THEN TrunkHop(first, d + 1) ELSE Uplink(d + 1))
                    ELSE IF d = n THEN end ELSE Unreachable]

MaxTrunkAt == 2

Chains ==
    UNION {{Chain(n, e, t, f) : e \in Ends(n), t \in 0..MaxTrunkAt, f \in {<<>>, <<Foreign>>}} :
              n \in Site}

\* two cores: the first does not lead to the address, the second may lead
\* back to the first
TwoCoreNets ==
    {[NoNet EXCEPT ![1] = a, ![2] = b, ![3] = Endpoint] :
        a \in {Unreachable, NotListed}, b \in {Uplink(1), Uplink(3), Endpoint, NotListed}}

\* hostnames "07_L3_..." of the cores and "07_L2_..." of the others
SiteNames(cores) ==
    [d \in Site |-> [site |-> "07", tier |-> IF d \in cores THEN "L3" ELSE "L2", gw |-> FALSE]]

\* the sites a request may name
SiteCodes == {"", "07", "09"}

\* persisted sightings of the traced address: switch 1 holds it on a port
\* named n1, switch 2 on Gi0/0/3, and the two may be linked over their
\* ports Gi0/0/1
MaxSightings == 2
Counts == {1, 4, 6, 21, 51}

TracedRows(n1) ==
    [NoRows EXCEPT ![1] = PortRow(1, n1, 1, NewPort(FALSE)),
                   ![2] = PortRow(2, "Gi0/0/3", 3, NewPort(FALSE)),
                   ![3] = PortRow(1, "Gi0/0/1", 2, NewPort(FALSE)),
                   ![4] = PortRow(2, "Gi0/0/1", 1, NewPort(FALSE))]

TracedLinks == {{}, {[id |-> 1, lsw |-> 1, lport |-> 3, rsw |-> 2, rport |-> 4]}}

TracedLocs ==
    {s \in SeqsUpTo(1..3, MaxSightings) : s # <<>> /\ (Len(s) = 2 => s[1] # s[2])}

\* hostnames of the two switches: with or without the site prefix, the
\* core known by "L3" in its name or by its address ending in .251
TracedNames ==
    {[NoNames EXCEPT ![1] = a, ![2] = b] :
        a \in {[site |-> "07", tier |-> "L3", gw |-> FALSE],
               [site |-> "07", tier |-> "", gw |-> TRUE],
               [site |-> "07", tier |-> "", gw |-> FALSE]},
        b \in {[site |-> "07", tier |-> t, gw |-> FALSE] : t \in {"L2", ""}}}
    \cup {NoNames}

\* either a site of chained switches that the database knows by name only,
\* or two switches with persisted sightings that answer little
InitTrace ==
    /\ InitDiscoveryIdle
    /\ InitGraph
    /\ switches = Site
    /\ histRefs = <<>>
    /\ tr = IdleTrace
    /\ deleted = NoResponse
    /\ \/ /\ \/ net \in Chains /\ names = SiteNames({1})
             \/ net \in TwoCoreNets /\ names = SiteNames({1, 2})
          /\ portRows = NoRows
          /\ locRefs = <<>>
          /\ links = {}
          /\ crowd = [p \in PortIds |-> 0]
       \/ /\ net \in {NoNet, Chain(2, Endpoint, 0, <<>>)}
          /\ names \in TracedNames
          /\ portRows \in {TracedRows(n) : n \in {"Agg1", "Eth-Trunk1", "GE0/0/3"}}
          /\ locRefs \in TracedLocs
          /\ links \in TracedLinks
          /\ crowd \in {[p \in PortIds |-> IF p = 1 THEN a ELSE IF p = 2 THEN b ELSE 51] :
                           a \in Counts, b \in {1, 51}}

\* trace requests one at a time, and switches deleted in between
NextTrace ==
    \/ \E method \in {"ssh", "db"}, site \in SiteCodes : trace_mac_endpoint(method, site)
    \/ Hop
    \/ LeaveLoop
    \/ Offline
    \/ Respond
    \/ \E d \in Devices : tr.pc = "idle" /\ delete_switch(d)

SpecTrace == InitTrace /\ [][NextTrace]_vars

----------------------------------------------------------------------------
(* Path specification: path requests on a built graph *)

MaxPathNodes == 4
PathNodes == 1..MaxPathNodes

\* a switch id that is no key of the graph
NoNode == MaxPathNodes + 1

\* the unordered pairs of switches a TopologyLink can join
PathPairs == {e \in SUBSET PathNodes : Cardinality(e) = 2}

\* the graph after build: every switch a key, every link an edge both ways
PathGraph(E) ==
    FinishBuild([order |-> Ascending(PathNodes),
                 nb    |-> [n \in PathNodes |-> {m \in PathNodes : {n, m} \in E}],
                 core  |-> <<>>,
                 valid |-> FALSE])

InitPath ==
    /\ InitDiscoveryIdle
    /\ switches = PathNodes
    /\ portRows = NoRows
    /\ locRefs = <<>>
    /\ histRefs = <<>>
    /\ links = {}
    /\ graph \in {PathGraph(E) : E \in SUBSET PathPairs}
    /\ snap = graph
    /\ lock = NoThread
    /\ th = [t \in Threads |-> IdleThread]
    /\ rf = "idle"
    /\ InitNoTrace

NextPath ==
    \/ \E a \in PathNodes \cup {NoNode}, b \in PathNodes \cup {NoNode} : get_switch_path(1, a, b)
    \/ Answer(1)
    \/ Return(1)

SpecPath == InitPath /\ [][NextPath]_vars

----------------------------------------------------------------------------
(* Scoring specification: offline traces over two linked switches *)

\* Locations of the address on any of the four ports
ScoredLocs ==
    {s \in SeqsUpTo(PortIds, MaxSightings) : s # <<>> /\ (Len(s) = 2 => s[1] # s[2])}

\* address counts: few or very many on the outer ports, also some on the
\* ports of the link
ScoredCrowds ==
    {c \in [PortIds -> {1, 6, 51}] : c[1] # 6 /\ c[2] # 6}

InitScore ==
    /\ InitDiscoveryIdle
    /\ InitGraph
    /\ switches = Site
    /\ histRefs = <<>>
    /\ tr = IdleTrace
    /\ deleted = NoResponse
    /\ net = NoNet
    /\ names \in TracedNames
    /\ portRows \in {TracedRows(n) : n \in {"Agg1", "Eth-Trunk1", "GE0/0/3"}}
    /\ locRefs \in ScoredLocs
    /\ links \in TracedLinks
    /\ crowd \in ScoredCrowds

\* requests for the database-only trace, one at a time
NextScore ==
    \/ \E site \in SiteCodes : trace_mac_endpoint("db", site)
    \/ Offline
    \/ Respond

SpecScore == InitScore /\ [][NextScore]_vars

----------------------------------------------------------------------------
(* Claims *)

\* C1: after every discovery pass, also when passes interleave, every
\* address has at most one committed Location with is_current = true.
C1_AtMostOneCurrent ==
    \A m \in MACs : Cardinality(CurrentLocs(m)) <= 1

\* what other sessions and a restarted process can read
Persisted ==
    [locs  |-> SelectSeq(locs, LAMBDA l : l.st = "c"),
     hist  |-> SelectSeq(hist, LAMBDA h : h.st = "c"),
     ports |-> ports,
     macs  |-> macs]

\* C2: the changes of one device's pass (stale removal, placements, port
\* roles) are persisted together by the single commit that ends the pass; a
\* pass that fails part-way persists none of them.
C2_CommitAsOneUnit ==
    [][Persisted' # Persisted =>
         \E w \in Workers :
             /\ wk[w].pc = "rows"
             /\ wk[w].rows = <<>>
             /\ wk'[w].pc = "log"
             /\ wk'[w].result = "success"]_vars

\* the step in which worker w classifies the first of its remaining rows
RowStep(w) == wk[w].pc = "rows" /\ wk[w].rows # <<>> /\ wk'[w] # wk[w]

RowKey(w) == <<wk[w].dev, normalize_port_name(Head(wk[w].rows).port)>>
RowMac(w) == Head(wk[w].rows).mac

\* role of the row's port once the pass has looked it up or created it:
\* aggregation-link name or switch/router neighbour, unless the neighbour
\* is an access point or a phone
RowPortIsUplink(w) ==
    SnmpNewPortIsUplink(PortView(SnmpPort(w, Here(w), RowKey(w)), RowKey(w)))

\* w's session at the moment the row's current Location is queried: the
\* Port and the MacAddress of the row have been looked up or created
RowSession(w) ==
    LET S1 == IF wk[w].path = "snmp" THEN SnmpPort(w, Here(w), RowKey(w))
                                     ELSE SshPort(w, Here(w), RowKey(w))
    IN GetOrCreateMac(w, S1, RowMac(w))

\* the current Location of the row's address as w's session reads it
RowCurrent(w) == QueryCurrentOfMac(w, RowSession(w), RowMac(w))

Elsewhere(w, i) == <<locs[i].sw, locs[i].port>> # RowKey(w)

\* C3: an address whose current Location is on a non-uplink port and that
\* is sighted on an uplink port at another (Device, Port) keeps its
\* Location: the row is only marked seen, nothing is flipped or inserted
\* and no History event is appended.
C3_UplinkSightingKeepsLocation ==
    [][\A w \in Workers :
         (/\ RowStep(w)
          /\ RowCurrent(w) # {}
          /\ \A i \in RowCurrent(w) :
                Elsewhere(w, i) /\ ~CurrentIsUplink(RowSession(w), locs[i])
          /\ RowPortIsUplink(w))
         => /\ hist' = hist
            /\ Len(locs') = Len(locs)
            /\ wk'[w].flipP = wk[w].flipP
            /\ RowCurrent(w) \cap wk'[w].touch # {}]_vars

\* the step in which worker w ends a pass with its final commit
FinishStep(w) == wk[w].pc = "rows" /\ wk[w].rows = <<>> /\ wk'[w].pc = "log"

\* "move" events that w's pass has added and not yet committed and that
\* lead address m from its committed current Location i to an access port
TransitionMoves(w, m, i) ==
    {j \in DOMAIN hist :
        /\ hist[j].owner = w /\ hist[j].st # "c"
        /\ hist[j].ev = "move" /\ hist[j].mac = m
        /\ hist[j].psw = locs[i].sw /\ hist[j].pport = locs[i].port
        /\ ~SnmpNewPortIsUplink(PortView(Here(w), <<hist[j].sw, hist[j].port>>))}

OnUplink(w, i) == CurrentIsUplink(RowSession(w), locs[i])

\* C4: an address whose current Location is on an uplink port and that is
\* then seen on a true access port gets its current Location on the access
\* port, and the pass records exactly one "move" event for the transition.
C4_UplinkToAccessMovesOnce ==
    [][\A w \in Workers :
         /\ (/\ RowStep(w)
              /\ RowCurrent(w) # {}
              /\ \A i \in RowCurrent(w) : Elsewhere(w, i) /\ OnUplink(w, i)
              /\ ~RowPortIsUplink(w))
             => /\ Len(hist') = Len(hist) + 1
                /\ hist'[Len(hist')].ev = "move"
                /\ hist'[Len(hist')].mac = RowMac(w)
                /\ Len(locs') = Len(locs) + 1
                /\ <<locs'[Len(locs')].sw, locs'[Len(locs')].port>> = RowKey(w)
                /\ locs'[Len(locs')].cur
                /\ RowCurrent(w) \subseteq wk'[w].flipP \cup wk'[w].flipF
         /\ FinishStep(w)
             => \A m \in MACs : \A i \in CurrentLocs(m) :
                  (/\ CurrentIsUplink(Here(w), locs[i])
                   /\ TransitionMoves(w, m, i) # {})
                  => /\ Cardinality(TransitionMoves(w, m, i)) = 1
                     /\ Cardinality(CurrentLocs(m)') = 1]_vars

\* a step of w's pass while it classifies a table equal to the previous one
RepeatStep(w) == last.again /\ wk[w].pc \in {"stale", "rows"} /\ wk'[w] # wk[w]

\* C5: classifying the same table of a device twice in a row is
\* idempotent: the second pass appends no History event, inserts no
\* Location and changes no Location's address, device, port or current flag.
C5_SecondPassIdempotent ==
    [][\A w \in Workers :
         RepeatStep(w)
         => /\ Len(hist') = Len(hist)
            /\ Len(locs') = Len(locs)
            /\ wk'[w].flipP \cup wk'[w].flipF = {}
            /\ \A i \in DOMAIN locs :
                  /\ locs'[i].mac = locs[i].mac
                  /\ locs'[i].sw = locs[i].sw
                  /\ locs'[i].port = locs[i].port
                  /\ locs'[i].cur = locs[i].cur]_vars

\* C6: a row whose address has no current Location makes the pass create a
\* current Location at the row's (Device, Port), unless the port is
\* classified uplink and the address's vendor prefix is not in the endpoint
\* allow-list; in that case no Location is created.
C6_PlacementOfUnplacedAddress ==
    [][\A w \in Workers :
         (RowStep(w) /\ RowCurrent(w) = {})
         => IF RowPortIsUplink(w) /\ ~is_oui_endpoint(RowMac(w))
            THEN Len(locs') = Len(locs)
            ELSE /\ Len(locs') = Len(locs) + 1
                 /\ locs'[Len(locs')].mac = RowMac(w)
                 /\ <<locs'[Len(locs')].sw, locs'[Len(locs')].port>> = RowKey(w)
                 /\ locs'[Len(locs')].cur]_vars

\* the step in which w's pass handles the Locations its table no longer lists
\* (SNMP: the cleanup before the rows; SSH: the pass goes straight to the rows)
CleanupStep(w) ==
    \/ wk[w].pc = "stale" /\ wk'[w].pc = "rows"
    \/ wk[w].pc = "query" /\ wk'[w].pc = "rows"

\* current Locations on w's device whose address the collected table lacks
Absent(w) ==
    {i \in DOMAIN locs' :
        /\ i \in DOMAIN locs /\ Committed(i) /\ locs[i].cur
        /\ locs[i].sw = wk[w].dev
        /\ locs[i].mac \notin discovered_macs(wk'[w].rows)}

Disappeared(i) ==
    {j \in DOMAIN hist' : /\ j \notin DOMAIN hist
                          /\ hist'[j].ev = "disappeared"
                          /\ hist'[j].mac = locs[i].mac
                          /\ hist'[j].sw = locs[i].sw}

\* C7: in a device's pass every Location that is current on the device and
\* whose address is absent from the collected rows is flipped to not-current
\* and one "disappeared" History event is appended for it.
C7_StaleRemoval ==
    [][\A w \in Workers :
         CleanupStep(w)
         => \A i \in Absent(w) :
              /\ ~locs'[i].cur \/ i \in wk'[w].flipP \cup wk'[w].flipF
              /\ Cardinality(Disappeared(i)) = 1]_vars

\* C8: the Device and Port of an existing Location row never change; a
\* changed placement is a flipped old row plus a new row.
C8_LocationNeverMutated ==
    [][\A i \in DOMAIN locs :
         /\ i \in DOMAIN locs'
         /\ locs'[i].mac = locs[i].mac
         /\ locs'[i].sw = locs[i].sw
         /\ locs'[i].port = locs[i].port]_vars

\* the step in which w's discover_switch logs a failed pass and returns
FailureLogged(w) == wk[w].pc = "log" /\ wk[w].result = "error" /\ wk'[w] # wk[w]

\* the step in which w leaves the loop over the devices
LoopLeft(w) == wk[w].pc = "next" /\ wk'[w].pc = "idle"

C10_NoConcurrentQuery ==
    \A v, w \in Workers :
        (v # w /\ wk[v].pc = "query" /\ wk[w].pc = "query") => wk[v].dev # wk[w].dev

\* C11: a pass that meets an address with more than one current Location
\* does not go on silently: the violation makes that device's pass fail.
C11_DuplicateCurrentFailsPass ==
    [][\A w \in Workers :
         (RowStep(w) /\ Cardinality(RowCurrent(w)) > 1)
         => /\ wk'[w].result = "error"
            /\ wk'[w].pc = "log"]_vars

\* Locations, History and Port roles of a database, without session data
Outcome(S) ==
    [locs  |-> [i \in DOMAIN S.locs |->
                 [mac |-> S.locs[i].mac, sw |-> S.locs[i].sw,
                  port |-> S.locs[i].port, cur |-> S.locs[i].cur]],
     hist  |-> [i \in DOMAIN S.hist |->
                 [mac |-> S.hist[i].mac, sw |-> S.hist[i].sw, port |-> S.hist[i].port,
                  ev |-> S.hist[i].ev, psw |-> S.hist[i].psw, pport |-> S.hist[i].pport]],
     ports |-> S.ports]

\* the persisted state, read by a session that has done nothing yet
Fresh(w) == [Here(w) EXCEPT !.me = IdleWorker]

\* C12: from the same persisted state and for the same rows of a device, an
\* on-demand discovery of that device and the fleet discovery's pass on it
\* produce the same Location, History and Port-role changes.
C12_OnDemandEqualsFleet ==
    (\A w \in Workers : wk[w].pc = "idle")
    => \A d \in Devices, rows \in SharedSnapshots :
         Outcome(OnDemandPass(Fresh("single"), d, FALSE, rows, clock + 1))
           = Outcome(FleetPass(Fresh("sched"), d, rows, clock + 1))

\* the step of refresh_topology that merges the duplicate ports
MergeStep == rf = "idle" /\ rf' = "walk"

\* C13: when two or more Port rows of one switch share an interface index
\* (greater than 0), then after the port-merge pass exactly one of them is
\* left, and every Location, History event (port and previous port) and
\* TopologyLink (local and remote port) that pointed at any of them points
\* at the row that is left.
C13_PortMergeLeavesOneRow ==
    [][MergeStep =>
         \A g \in DuplicateGroups(Tables) :
            /\ Cardinality({p \in g : portRows'[p].exists}) = 1
            /\ LET keep == CHOOSE p \in g : portRows'[p].exists
               IN /\ \A p \in PortIds :
                        /\ portRows'[p].exists
                        /\ portRows'[p].sw = portRows'[keep].sw
                        /\ portRows'[p].index = portRows'[keep].index
                        => p = keep
                  /\ DOMAIN locRefs' = DOMAIN locRefs
                  /\ \A i \in DOMAIN locRefs : locRefs[i] \in g => locRefs'[i] = keep
                  /\ DOMAIN histRefs' = DOMAIN histRefs
                  /\ \A i \in DOMAIN histRefs :
                        /\ histRefs[i].port \in g => histRefs'[i].port = keep
                        /\ histRefs[i].prev \in g => histRefs'[i].prev = keep
                  /\ \A l \in links : \E m \in links' :
                        /\ m.id = l.id
                        /\ l.lport \in g => m.lport = keep
                        /\ l.rport \in g => m.rport = keep]_vars

\* a merge has just run: a row is gone, and the row left on its switch and
\* index is referenced by a Location, by a History event and by a link
C13_Witness ==
    /\ rf = "walk"
    /\ \E gone \in PortIds, keep \in PortIds :
          /\ gone < keep
          /\ ~portRows[gone].exists
          /\ portRows[keep].exists
          /\ \E i \in DOMAIN locRefs : locRefs[i] = keep
          /\ \E i \in DOMAIN histRefs : histRefs[i].prev = keep
          /\ \E l \in links : l.rport = keep

\* C14: after any sequence of topology refreshes there is at most one
\* TopologyLink for each unordered pair of Devices, whichever side reported
\* the neighbour.
C14_OneLinkPerPair ==
    \A l \in links, m \in links : {l.lsw, l.rsw} = {m.lsw, m.rsw} => l = m

\* a link created on the report of switch 1 is still the only one after
\* switch 2 has reported switch 1 on a port of its own
C14_Witness ==
    /\ rf = "idle"
    /\ \E l \in links :
          /\ l.lsw = 1 /\ l.rsw = 2
          /\ \E p \in PortIds :
                /\ portRows[p].exists
                /\ portRows[p].sw = 2
                /\ portRows[p].lldp = "switch"

Building == {"clear", "load", "edge", "back"}

\* the steps in which a request reads the graph for its answer
Reads(t) == th[t].pc = "answer" /\ th'[t].pc = "done"

\* C15: after an operation that changes the persisted topology (a refresh
\* that creates or refreshes links, the deletion of a Device) the cached
\* graph is marked invalid until it is rebuilt.
C15_TopologyChangeInvalidates ==
    [][lock = NoThread /\ (links' # links \/ switches' # switches)
         => ~graph'.valid]_vars

\* C16: a path, neighbour or core-list query issued while the graph is
\* invalid rebuilds the graph first, so that its answer is computed from a
\* graph that is valid at that moment: flagged valid, and no rebuild running.
C16_AnswerFromValidGraph ==
    [][\A t \in Threads :
          Reads(t) /\ th[t].rebuilt => graph.valid /\ lock = NoThread]_vars

\* C17: at most one rebuild of the graph executes at any time; a rebuild
\* requested while another one runs starts after that one has finished.
C17_OneRebuildAtATime ==
    /\ Cardinality({t \in Threads : th[t].pc \in Building}) <= 1
    /\ \A t \in Threads : th[t].pc \in Building => lock = t

\* one request rebuilds while the other waits for the lock
C17_Witness ==
    \E t \in Threads, u \in Threads :
        /\ th[t].pc \in Building
        /\ th[u].pc = "want"

\* C18: a path or neighbour query that runs while a rebuild is in progress
\* is answered from the last valid snapshot, never from a partially rebuilt
\* adjacency map.
C18_AnswerFromLastSnapshot ==
    [][\A t \in Threads :
          /\ Reads(t)
          /\ th[t].op \in {"path", "neighbors"}
          /\ lock # NoThread
          => th'[t].ans = AnswerOf(snap, th[t].op, th[t].a, th[t].b)]_vars

\* C19 as stated: a shortest-path, path-to-core or neighbour query leaves
\* the graph unchanged: no step of such a request, from the moment it is
\* issued to its answer, changes the adjacency map, the core list or the
\* validity flag.
C19_QueryLeavesGraphUnchanged ==
    [][\A t \in Threads :
          th[t].op \in {"path", "to_core", "neighbors"} /\ th'[t] # th[t]
            => graph' = graph]_vars

\* C19, amended: the read of a shortest-path, path-to-core or neighbour
\* query (find_path, find_path_to_core, get_switch_neighbors) leaves the
\* adjacency map, the core list and the validity flag unchanged, and a
\* request that found the graph valid when it was issued never rebuilds it.
C19_ReadLeavesGraphUnchanged ==
    [][\A t \in Threads :
          /\ Reads(t) /\ th[t].op \in {"path", "to_core", "neighbors"}
               => graph' = graph
          /\ th'[t].pc \in Building /\ th'[t].op # "build" => th'[t].rebuilt]_vars

\* a path query has read a path of three switches from a valid graph that
\* it did not have to rebuild
C19_Witness ==
    \E t \in Threads :
        /\ th[t].pc = "done"
        /\ th[t].op = "path"
        /\ ~th[t].rebuilt
        /\ Len(th[t].ans.path) = 3
        /\ graph.valid

\* C20: for any two Devices of the graph, the shortest path from the one to
\* the other and the shortest path back have the same length (outside a
\* rebuild, whose intermediate maps are the subject of C18).
C20_PathLengthSymmetric ==
    lock = NoThread
    => \A a \in Nodes, b \in Nodes :
          Len(find_path(graph, a, b)) = Len(find_path(graph, b, a))

\* the chain 1 - 2 - 3 has been built: three switches each way
C20_Witness ==
    /\ lock = NoThread
    /\ graph.valid
    /\ Len(find_path(graph, 1, 3)) = 3
    /\ Len(find_path(graph, 3, 1)) = 3

C22_SessionsClosedOnReturn ==
    tr.method = "ssh" /\ tr.pc \in {"offline", "done"} => tr.conns = {}

\* C23: a walk that stopped at a neighbour outside the database, at a switch
\* that refused the session, at the hop cap or at a loop has returned an
\* unconfirmed result with the last switch and port reached and the path
C23_StoppedWalkIsUncertain ==
    tr.pc \in {"offline", "done"} /\ tr.W.why \in {"foreign", "down", "cap", "loop"}
        => /\ tr.live = "found"
           /\ ~tr.res[1].confirmed
           /\ tr.res[1].host = tr.W.path[Len(tr.W.path)].sw
           /\ tr.res[1].port = tr.W.path[Len(tr.W.path)].port
           /\ tr.res[1].path = TraceNames(tr.W.path)

\* C24: a request of method "ssh" whose live trace has returned no result
\* (no core, a failed command, a walk without a step) is answered with
\* what the offline tracer finds for the address in the database
LiveResult ==
    IF tr.W.why \in {"idle", "error"} THEN <<>> ELSE WalkResult(tr.W)

C24_LiveFailureFallsBackToOffline ==
    tr.pc = "done" /\ tr.method = "ssh" /\ LiveResult = <<>>
        => tr.res = OfflineTrace(Database)

\* the core refused the session and the database had an answer
C24_Witness ==
    /\ tr.pc = "done"
    /\ tr.method = "ssh"
    /\ tr.W.why = "down"
    /\ tr.W.path = <<>>
    /\ tr.res # <<>>

\* C25: on the chain core 1 - 2 - 3 - leaf 4 with the address on a port of
\* the leaf that has no neighbour, the live trace returns the leaf and that
\* port as confirmed endpoint with a path of three entries
C25_ThreeHopChain ==
    (/\ net = Chain(4, Endpoint, 0, <<>>) /\ switches = Site
     /\ tr.pc = "done" /\ tr.W.asked # <<>>)
    => /\ tr.live = "found"
       /\ tr.res[1].sw = 4
       /\ tr.res[1].port = <<AccessName>>
       /\ tr.res[1].confirmed
       /\ Len(tr.res[1].path) = 3

\* C26: switch 1 holds the address on its port Agg1, switch 2, linked to
\* switch 1 over the ports Gi0/0/1, holds it on Gi0/0/3, a port with one
\* address and no neighbour: the offline answer is switch 2, Gi0/0/3,
\* confirmed
C26_AccessPortBeatsAggregate ==
    (/\ tr.pc = "done" /\ tr.method = "db"
     /\ portRows = TracedRows("Agg1")
     /\ links # {}
     /\ {locRefs[i] : i \in DOMAIN locRefs} = {1, 2}
     /\ crowd[2] = 1)
    => /\ tr.res # <<>>
       /\ tr.res[1].sw = 2
       /\ tr.res[1].port = <<"Gi0/0/3">>
       /\ tr.res[1].confirmed

\* C27: two answers of the offline tracer over the same persisted tables
\* name the same switch and port with the same confirmed flag
Verdict(res) ==
    IF res = <<>> THEN <<>> ELSE <<res[1].sw, res[1].port, res[1].confirmed>>

Deletes(d) == deleted' # deleted /\ deleted'.sw = d

C28_DeleteRemovesSwitchAndItsRows ==
    [][\A d \in Nodes :
          Deletes(d) =>
              /\ switches' = switches \ {d}
              /\ \A p \in PortsOf(d) : ~portRows'[p].exists
              /\ \A i \in DOMAIN locRefs' : locRefs'[i] \notin PortsOf(d)
              /\ \A l \in links' : l.lsw # d /\ l.rsw # d
              /\ macs' = macs
              /\ histRefs' = histRefs /\ hist' = hist]_vars

\* C29: an address whose current Location is at another (Device, Port) and
\* whose old and new port are both uplink or both not uplink is moved by
\* the row: one "move" History event is appended, one current Location is
\* inserted at the row's (Device, Port) and the old Location is flipped
C29_SameRoleSightingMoves ==
    [][\A w \in Workers :
         (/\ RowStep(w)
          /\ RowCurrent(w) # {}
          /\ \A i \in RowCurrent(w) :
                Elsewhere(w, i) /\ (OnUplink(w, i) <=> RowPortIsUplink(w)))
         => /\ Len(hist') = Len(hist) + 1
            /\ hist'[Len(hist')].ev = "move"
            /\ hist'[Len(hist')].mac = RowMac(w)
            /\ Len(locs') = Len(locs) + 1
            /\ <<locs'[Len(locs')].sw, locs'[Len(locs')].port>> = RowKey(w)
            /\ locs'[Len(locs')].cur
            /\ RowCurrent(w) \subseteq wk'[w].flipP \cup wk'[w].flipF]_vars

\* C30: a row on a Port that carries an access-point or phone neighbour tag
\* leaves the Port not uplink, whatever its name, and is placed like a row
\* on an access port: an address whose current Location is elsewhere gets
\* its current Location on the tagged Port
TaggedEndpointPort(w) ==
    /\ PortView(Here(w), RowKey(w)).exists
    /\ PortView(Here(w), RowKey(w)).lldp \in {"ap", "phone"}

C30_EndpointTagOverridesName ==
    [][\A w \in Workers :
         (RowStep(w) /\ TaggedEndpointPort(w))
         => /\ ~PortView(Here(w)', RowKey(w)).is_uplink
            /\ (RowCurrent(w) # {} /\ \A i \in RowCurrent(w) : Elsewhere(w, i))
                  => /\ Len(locs') = Len(locs) + 1
                     /\ <<locs'[Len(locs')].sw, locs'[Len(locs')].port>> = RowKey(w)]_vars

----------------------------------------------------------------------------
(* One fleet run that keeps going *)

\* a fleet run is started while the passes it needs are left and no other
\* fleet run is under way
RunPossible == clock + Cardinality(Devices) <= MaxPasses

StartRun ==
    /\ RunPossible
    /\ wk["manual"].pc = "idle"
    /\ run_discovery_task("sched")

\* one fleet run, started by the scheduler or by POST /discovery/start
NextRun ==
    \/ StartRun
    \/ RunPossible /\ wk["sched"].pc = "idle" /\ start_discovery
    \/ run_discovery_task("manual")
    \/ \E w \in FleetWorkers : NextSwitch(w)
    \/ \E w \in FleetWorkers : FleetDone(w)
    \/ \E w \in FleetWorkers, rows \in SharedSnapshots : QueryOk(w, rows)
    \/ \E w \in FleetWorkers : QueryFail(w)
    \/ \E w \in FleetWorkers : Stale(w)
    \/ \E w \in FleetWorkers : Row(w)
    \/ \E w \in FleetWorkers : Finish(w)
    \/ \E w \in FleetWorkers : LogDiscovery(w)

\* asyncio.run drives the task until it returns, and the background task
\* of a manual start is run once the response is sent: a step of the run
\* that stays possible is at last taken
SpecRun == InitSeeded /\ [][NextRun]_vars /\ WF_vars(NextRun)

\* the query of the fleet run has returned an empty table for device d
ZeroRows(d) ==
    /\ wk["sched"].pc = "stale"
    /\ wk["sched"].path = "snmp"
    /\ wk["sched"].dev = d
    /\ wk["sched"].rows = <<>>

\* the fleet run starts the command-line pass on device d
FallbackUsed(d) ==
    /\ wk["sched"].pc = "query"
    /\ wk["sched"].path = "ssh"
    /\ wk["sched"].dev = d

\* C31: whenever the structured query of a device flagged for fallback
\* yields zero rows, the command-line pass is run for that device
C31_ZeroRowsUseFallback ==
    \A d \in Devices : (ZeroRows(d) /\ fallback[d]) ~> FallbackUsed(d)

\* a neighbour record as the loop of refresh_topology meets it first
OneNeighbor(n) == Neighbor([T |-> Tables, seen |-> {}, full |-> FALSE], switches, n)

\* the role the capability bits of an unmanaged neighbour stand for
CapabilityRole(kind) ==
    CASE kind = "ap"    -> [is_uplink |-> FALSE, ptype |-> "ap_port", lldp |-> "ap"]
      [] kind = "phone" -> [is_uplink |-> FALSE, ptype |-> "phone_port", lldp |-> "phone"]
      [] kind \in {"switch", "router"}
                        -> [is_uplink |-> TRUE, ptype |-> "uplink", lldp |-> "switch"]
      [] OTHER          -> [is_uplink |-> TRUE, ptype |-> "uplink", lldp |-> "unknown"]

RECURSIVE Within(_, _, _)
Within(g, a, k) ==
    IF k = 0 THEN {a}
    ELSE LET S == Within(g, a, k - 1)
         IN S \cup UNION {g.nb[n] : n \in S \cap Keys(g)}

Connected(g, a, b) ==
    /\ a \in Keys(g)
    /\ b \in Keys(g)
    /\ b \in Within(g, a, Len(g.order))

\* the least number of edges from a to b
Hops(g, a, b) == Min({k \in 0..Len(g.order) : b \in Within(g, a, k)})

IsPath(g, p, a, b) ==
    /\ p # <<>>
    /\ p[1] = a
    /\ p[Len(p)] = b
    /\ \A i \in 1..(Len(p) - 1) : p[i] \in Keys(g) /\ p[i + 1] \in g.nb[p[i]]

\* C33: the answer to a path request is a path of the graph from the one
\* switch to the other with the least possible number of hops (one hop
\* for linked switches), and there is no path in the answer only when
\* the two switches are not connected in the graph
C33_ShortestPath ==
    \A t \in Threads :
       (th[t].pc = "done" /\ th[t].op = "path") =>
          LET p == th[t].ans.path
          IN IF Connected(graph, th[t].a, th[t].b)
             THEN /\ IsPath(graph, p, th[t].a, th[t].b)
                  /\ Len(p) - 1 = Hops(graph, th[t].a, th[t].b)
             ELSE p = <<>>

\* the answer 1, 3, 4 in a graph that also holds the way 1, 2, 3, 4
C33_Witness ==
    /\ th[1].pc = "done"
    /\ th[1].op = "path"
    /\ th[1].ans.path = <<1, 3, 4>>
    /\ graph.nb[1] = {2, 3}
    /\ graph.nb[2] = {1, 3}
    /\ 4 \in graph.nb[3]

\* the answer of the request in hand comes from the offline tracer
OfflineAnswer == tr.pc = "done" /\ tr.live # "found" /\ tr.res # <<>>

\* port names of the traced site that name an aggregation link
AggregationNames == {"Agg1", "Eth-Trunk1"}

\* C34: the offline tracer never answers with a Port of an aggregation
\* or trunk name as confirmed endpoint
C34_NoAggregateConfirmed ==
    OfflineAnswer =>
        ~(/\ tr.res[1].confirmed
          /\ \E n \in AggregationNames : tr.res[1].port = <<n>>)

\* the candidates of the offline tracer for the database as it is
CandidatePorts == {Candidates(Database)[i] : i \in DOMAIN Candidates(Database)}

\* the links that have the Port, or a Port that stands for the same
\* interface, at one of their ends
LinksAt(p) ==
    {l \in links : \E q \in get_equivalent_port_ids(Database, portRows[p].sw, p) :
                      \/ l.lsw = portRows[p].sw /\ l.lport = q
                      \/ l.rsw = portRows[p].sw /\ l.rport = q}

\* the Device at the other end of a link of the Port
NeighborDevice(p, l) == IF l.lsw = portRows[p].sw THEN l.rsw ELSE l.lsw

SeesAddress(d) == \E q \in CandidatePorts : portRows[q].sw = d

\* what the address count and the name of the switch add to a score
CountAndTier(p) ==
    LET n == crowd[p]
        t == names[portRows[p].sw].tier
    IN (IF n > 20 THEN -150 ELSE IF n > 5 THEN -50 ELSE IF n <= 3 THEN 50 ELSE 20)
       + (IF t \in {"L3", "Core"} THEN -10 ELSE IF t = "L2" THEN 10 ELSE 0)

\* C35: a candidate Port with one recorded neighbour Device, no trunk name
\* and at most 50 addresses gets 80 when that Device has no Location of
\* the address and -50 when it has one, on top of what the address count
\* and the switch name add
C35_NeighborScore ==
    tr.pc = "offline" =>
      \A p \in CandidatePorts : \A l \in LinksAt(p) :
         (/\ LinksAt(p) = {l}
          /\ NeighborDevice(p, l) \in switches
          /\ ~IsTrunkPort(portRows[p].name)
          /\ crowd[p] <= 50)
         => Scored(Database, p).score
              = (IF SeesAddress(NeighborDevice(p, l)) THEN -50 ELSE 80) + CountAndTier(p)

\* a candidate that is out of the running: an aggregation or trunk name,
\* or more addresses on the Port than an access port can have
Disqualified(p) == portRows[p].name \in AggregationNames \/ crowd[p] > 50

\* a candidate with a recorded neighbour Device that has no Location of
\* the address
NeighborWithout(p) ==
    \E l \in LinksAt(p) :
       NeighborDevice(p, l) \in switches /\ ~SeesAddress(NeighborDevice(p, l))

\* C36: when every candidate is disqualified and some candidate has a
\* neighbour that does not see the address, the offline answer is such a
\* candidate and is not a confirmed endpoint
C36_DeepestWhenAllDisqualified ==
    (/\ tr.pc = "done" /\ tr.live # "found"
     /\ \A p \in CandidatePorts : Disqualified(p)
     /\ \E p \in CandidatePorts : NeighborWithout(p))
    => /\ tr.res # <<>>
       /\ ~tr.res[1].confirmed
       /\ \E p \in CandidatePorts :
             /\ NeighborWithout(p)
             /\ tr.res[1].sw = portRows[p].sw
             /\ tr.res[1].port = <<portRows[p].name>>

\* C37: a History event that exists stays as it is: no step removes it or
\* changes the Port or the previous Port it records
C37_HistoryAppendOnly ==
    [][\A i \in DOMAIN histRefs :
          i \in DOMAIN histRefs' /\ histRefs'[i] = histRefs[i]]_vars

\* a fleet run is at a device that does not answer: the query has ended
\* in a timeout
TimedOut ==
    \E w \in FleetWorkers : wk[w].pc = "log" /\ wk[w].result = "error"

\* the run is over, and after every pass in the log that ended in an error
\* each later device of the run has a pass of its own
RestProcessed ==
    /\ status = "completed"
    /\ \A w \in FleetWorkers : wk[w].pc = "idle"
    /\ \A i \in DOMAIN logs :
          logs[i].status = "error"
             => \A e \in Devices :
                   e > logs[i].sw => \E j \in DOMAIN logs : j > i /\ logs[j].sw = e

C39_RunningEnds == (status = "running") ~> (status \in {"completed", "error"})

\* a run started by POST /discovery/start has ended
C39_Witness ==
    /\ status = "completed"
    /\ wk["manual"].pc = "idle"
    /\ wk["manual"].t > 0

\* the interface of its device that a port name stands for: the ifIndex the
\* device itself gives to that name
InterfaceOf(name) ==
    (CHOOSE i \in LocalIfs : normalize_port_name(i.name) = name).index

\* C40: the port-merge pass merges Port rows only when they stand for the
\* same interface of the same Device: a row that the pass removes and the
\* rows it was grouped with all carry names of one interface
C40_MergeOnlySameInterface ==
    [][MergeStep =>
         \A p \in PortIds :
            (portRows[p].exists /\ ~portRows'[p].exists)
               => \A q \in SameIndex(Tables, portRows[p].sw, portRows[p].index) :
                     /\ portRows[q].sw = portRows[p].sw
                     /\ InterfaceOf(portRows[q].name) = InterfaceOf(portRows[p].name)]_vars

====
